---- MODULE Spec2Model ----
(***************************************************************************)
(* Model of the news-scraper report pipeline: the markdown tokenizer, the  *)
(* section classifier, the inline formatter and the report assembler of    *)
(* Web3NewsPDFGenerator (src/_02_pdf_generator.py, src/pdf_generator.py).  *)
(*                                                                         *)
(* Text is a sequence of one-character strings, so that Python's str       *)
(* operations (strip, split, count, replace, slicing, re.sub) are computed *)
(* character by character.                                                 *)
(***************************************************************************)
EXTENDS Integers, Sequences, FiniteSets, TLC

\* ------------------------------------------------------------------------
\* Python str primitives
\* ------------------------------------------------------------------------

\* characters str.strip()/str.split() treat as whitespace
Whitespace == {" ", "\t", "\n"}

Digits == {"0", "1", "2", "3", "4", "5", "6", "7", "8", "9"}

UpperChars == <<"A","B","C","D","E","F","G","H","I","J","K","L","M","N","O","P","Q","R","S","T","U","V","W","X","Y","Z">>

LowerChars == <<"a","b","c","d","e","f","g","h","i","j","k","l","m","n","o","p","q","r","s","t","u","v","w","x","y","z">>

\* str.lower() on one character
LowerChar(c) ==
    IF \E i \in 1..Len(UpperChars) : UpperChars[i] = c
    THEN LowerChars[CHOOSE i \in 1..Len(UpperChars) : UpperChars[i] = c]
    ELSE c

\* str.upper() on one character
UpperChar(c) ==
    IF \E i \in 1..Len(LowerChars) : LowerChars[i] = c
    THEN UpperChars[CHOOSE i \in 1..Len(LowerChars) : LowerChars[i] = c]
    ELSE c

IsAlpha(c) ==
    \E i \in 1..Len(LowerChars) : LowerChars[i] = c \/ UpperChars[i] = c

\* str.lower()
Lower(s) == [i \in 1..Len(s) |-> LowerChar(s[i])]

\* s[i-1:] in Python terms: the suffix starting at 1-based position i
From(s, i) == SubSeq(s, i, Len(s))

\* s.startswith(p, i-1): p occurs in s at 1-based position i
HasAt(s, i, p) ==
    /\ i >= 1
    /\ i + Len(p) - 1 <= Len(s)
    /\ SubSeq(s, i, i + Len(p) - 1) = p

StartsWith(s, p) == HasAt(s, 1, p)

\* p in s
Contains(s, p) == \E i \in 1..(Len(s) + 1) : HasAt(s, i, p)

\* position of the first occurrence of p in s at or after i, 0 when none
FindFrom(s, i, p) ==
    IF \E j \in i..(Len(s) + 1) : HasAt(s, j, p)
    THEN CHOOSE j \in i..(Len(s) + 1) :
            /\ HasAt(s, j, p)
            /\ \A k \in i..(j - 1) : ~HasAt(s, k, p)
    ELSE 0

\* str.lstrip()
LStrip(s) ==
    IF \A i \in 1..Len(s) : s[i] \in Whitespace
    THEN <<>>
    ELSE From(s, CHOOSE i \in 1..Len(s) :
                    /\ s[i] \notin Whitespace
                    /\ \A k \in 1..(i - 1) : s[k] \in Whitespace)

\* str.rstrip()
RStrip(s) ==
    IF \A i \in 1..Len(s) : s[i] \in Whitespace
    THEN <<>>
    ELSE SubSeq(s, 1, CHOOSE i \in 1..Len(s) :
                    /\ s[i] \notin Whitespace
                    /\ \A k \in (i + 1)..Len(s) : s[k] \in Whitespace)

\* str.strip()
Strip(s) == RStrip(LStrip(s))

\* str.count(p): number of non-overlapping occurrences, scanning from the left
RECURSIVE CountFrom(_, _, _)
CountFrom(s, i, p) ==
    LET j == FindFrom(s, i, p)
    IN  IF j = 0 \/ j > Len(s) THEN 0
        ELSE 1 + CountFrom(s, j + Len(p), p)

Count(s, p) == CountFrom(s, 1, p)

\* str.replace(old, new): every non-overlapping occurrence, from the left
RECURSIVE ReplaceFrom(_, _, _, _)
ReplaceFrom(s, i, old, new) ==
    LET j == FindFrom(s, i, old)
    IN  IF j = 0 \/ j > Len(s) THEN From(s, i)
        ELSE SubSeq(s, i, j - 1) \o new \o ReplaceFrom(s, j + Len(old), old, new)

Replace(s, old, new) == ReplaceFrom(s, 1, old, new)

\* str.split(sep): the pieces between the occurrences of sep (always >= 1 piece)
RECURSIVE SplitFrom(_, _, _)
SplitFrom(s, i, sep) ==
    LET j == FindFrom(s, i, sep)
    IN  IF j = 0 \/ j > Len(s) THEN << From(s, i) >>
        ELSE << SubSeq(s, i, j - 1) >> \o SplitFrom(s, j + Len(sep), sep)

Split(s, sep) == SplitFrom(s, 1, sep)

\* str.split(sep, 1): split at the first occurrence only
SplitOnce(s, sep) ==
    LET j == FindFrom(s, 1, sep)
    IN  IF j = 0 \/ j > Len(s) THEN << s >>
        ELSE << SubSeq(s, 1, j - 1), From(s, j + Len(sep)) >>

\* sep.join(parts)
RECURSIVE Join(_, _)
Join(parts, sep) ==
    IF Len(parts) = 0 THEN <<>>
    ELSE IF Len(parts) = 1 THEN parts[1]
    ELSE parts[1] \o sep \o Join(Tail(parts), sep)

\* n copies of c
Rep(c, n) == [i \in 1..n |-> c]

\* ------------------------------------------------------------------------
\* Section classifier: _detect_section_type
\* ------------------------------------------------------------------------

kw_executive_summary ==
    { <<"e","x","e","c","u","t","i","v","e"," ","s","u","m","m","a","r","y">>, <<"e","x","e","c","u","t","i","v","e"," ","o","v","e","r","v","i","e","w">>, <<"s","u","m","m","a","r","y">> }

kw_background ==
    { <<"b","a","c","k","g","r","o","u","n","d">>, <<"o","p","p","o","r","t","u","n","i","t","y">>, <<"c","o","n","t","e","x","t">>, <<"o","v","e","r","v","i","e","w">> }

kw_objective ==
    { <<"o","b","j","e","c","t","i","v","e","s">>, <<"g","o","a","l","s">>, <<"a","i","m","s">>, <<"t","a","r","g","e","t","s">>,
      <<"p","r","i","m","a","r","y"," ","o","b","j","e","c","t","i","v","e">>, <<"s","e","c","o","n","d","a","r","y"," ","o","b","j","e","c","t","i","v","e">> }

kw_methodology ==
    { <<"m","e","t","h","o","d","o","l","o","g","y">>, <<"a","p","p","r","o","a","c","h">>, <<"m","e","t","h","o","d","s">>, <<"p","r","o","c","e","s","s">>,
      <<"p","h","a","s","e","s">>, <<"p","h","a","s","e">> }

kw_research_areas ==
    { <<"r","e","s","e","a","r","c","h"," ","a","r","e","a","s">>, <<"f","o","c","u","s"," ","a","r","e","a","s">>, <<"k","e","y"," ","a","r","e","a","s">>, <<"r","e","s","e","a","r","c","h"," ","f","o","c","u","s">> }

kw_timeline ==
    { <<"t","i","m","e","l","i","n","e">>, <<"s","c","h","e","d","u","l","e">>, <<"m","i","l","e","s","t","o","n","e","s">>, <<"d","e","a","d","l","i","n","e","s">> }

kw_investment ==
    { <<"i","n","v","e","s","t","m","e","n","t">>, <<"b","u","d","g","e","t">>, <<"c","o","s","t">>, <<"f","u","n","d","i","n","g">>, <<"f","i","n","a","n","c","i","a","l">> }

kw_deliverable ==
    { <<"d","e","l","i","v","e","r","a","b","l","e","s">>, <<"o","u","t","p","u","t","s">>, <<"r","e","s","u","l","t","s">>, <<"o","u","t","c","o","m","e","s">>, <<"d","e","l","i","v","e","r","a","b","l","e">> }

kw_research_questions ==
    { <<"r","e","s","e","a","r","c","h"," ","q","u","e","s","t","i","o","n","s">>, <<"q","u","e","s","t","i","o","n","s">>, <<"k","e","y"," ","q","u","e","s","t","i","o","n","s">> }

kw_participants ==
    { <<"p","a","r","t","i","c","i","p","a","n","t","s">>, <<"t","a","r","g","e","t">>, <<"a","u","d","i","e","n","c","e">>, <<"u","s","e","r","s">>, <<"s","e","g","m","e","n","t","s">> }

\* any(keyword in text_lower for keyword in [...])
AnyKeyword(text_lower, keywords) == \E k \in keywords : Contains(text_lower, k)

\* detect_section_type with the background test ahead of the executive
\* summary test
detect_section_type_BackgroundFirst(text) ==
    LET text_lower == Strip(Lower(text))
    IN  IF AnyKeyword(text_lower, kw_background) THEN "background"
        ELSE IF AnyKeyword(text_lower, kw_executive_summary) THEN "executive_summary"
        ELSE IF AnyKeyword(text_lower, kw_objective) THEN "objective"
        ELSE IF AnyKeyword(text_lower, kw_methodology) THEN "methodology"
        ELSE IF AnyKeyword(text_lower, kw_research_areas) THEN "research_areas"
        ELSE IF AnyKeyword(text_lower, kw_timeline) THEN "timeline"
        ELSE IF AnyKeyword(text_lower, kw_investment) THEN "investment"
        ELSE IF AnyKeyword(text_lower, kw_deliverable) THEN "deliverable"
        ELSE IF AnyKeyword(text_lower, kw_research_questions) THEN "research_questions"
        ELSE IF AnyKeyword(text_lower, kw_participants) THEN "participants"
        ELSE "general"

detect_section_type(text) ==
    LET text_lower == Strip(Lower(text))
    IN  IF AnyKeyword(text_lower, kw_executive_summary) THEN "executive_summary"
        ELSE IF AnyKeyword(text_lower, kw_background) THEN "background"
        ELSE IF AnyKeyword(text_lower, kw_objective) THEN "objective"
        ELSE IF AnyKeyword(text_lower, kw_methodology) THEN "methodology"
        ELSE IF AnyKeyword(text_lower, kw_research_areas) THEN "research_areas"
        ELSE IF AnyKeyword(text_lower, kw_timeline) THEN "timeline"
        ELSE IF AnyKeyword(text_lower, kw_investment) THEN "investment"
        ELSE IF AnyKeyword(text_lower, kw_deliverable) THEN "deliverable"
        ELSE IF AnyKeyword(text_lower, kw_research_questions) THEN "research_questions"
        ELSE IF AnyKeyword(text_lower, kw_participants) THEN "participants"
        ELSE "general"

\* ------------------------------------------------------------------------
\* Inline formatter: _process_bold_text, _process_italic_text,
\* _process_code_text, _process_markdown_text
\* ------------------------------------------------------------------------

\* the leftmost of a set of positions, 0 when the set is empty
FirstOf(S) == IF S = {} THEN 0 ELSE CHOOSE j \in S : \A k \in S : j <= k

\* the closing delimiter d of a lazy group opened at position a: the first d
\* behind the opening one (0 when none)
LazyClose(s, a, d) == FindFrom(s, a + Len(d), d)

\* d (.*?) d matches at position a and closes at c: '.' matches no newline
LazyMatchAt(s, a, d, c) ==
    /\ HasAt(s, a, d)
    /\ c # 0
    /\ c <= Len(s)
    /\ \A k \in (a + Len(d))..(c - 1) : s[k] # "\n"

LazyMatch(s, a, d) == LazyMatchAt(s, a, d, LazyClose(s, a, d))

\* re.sub(d (.*?) d, lt \1 rt, s) from position i: the leftmost match, the
\* shortest content, then the rest of the string behind the match
RECURSIVE SubLazy(_, _, _, _, _)
SubLazyAt(s, i, d, lt, rt, m, c) ==
    SubSeq(s, i, m - 1) \o lt \o SubSeq(s, m + Len(d), c - 1) \o rt
        \o SubLazy(s, c + Len(d), d, lt, rt)

SubLazyFirst(s, i, d, lt, rt, m) ==
    IF m = 0 THEN From(s, i)
    ELSE SubLazyAt(s, i, d, lt, rt, m, LazyClose(s, m, d))

SubLazy(s, i, d, lt, rt) ==
    SubLazyFirst(s, i, d, lt, rt, FirstOf({ j \in i..Len(s) : LazyMatch(s, j, d) }))

\* the closing c of a group c [^c]+ c opened at position a (0 when none)
SingleClose(s, a, c) == FindFrom(s, a + 1, << c >>)

\* (?<!c) c ([^c]+) c (?!c) matches at position a and closes at e; without
\* the lookarounds when lookaround is FALSE
SingleMatchAt(s, a, c, lookaround, e) ==
    /\ s[a] = c
    /\ e # 0
    /\ e <= Len(s)
    /\ e > a + 1
    /\ lookaround => (a = 1 \/ s[a - 1] # c)
    /\ lookaround => (e = Len(s) \/ s[e + 1] # c)

SingleMatch(s, a, c, lookaround) ==
    SingleMatchAt(s, a, c, lookaround, SingleClose(s, a, c))

\* re.sub((?<!c) c ([^c]+) c (?!c), lt \1 rt, s) from position i
RECURSIVE SubSingle(_, _, _, _, _, _)
SubSingleAt(s, i, c, lt, rt, lookaround, m, e) ==
    SubSeq(s, i, m - 1) \o lt \o SubSeq(s, m + 1, e - 1) \o rt
        \o SubSingle(s, e + 1, c, lt, rt, lookaround)

SubSingleFirst(s, i, c, lt, rt, lookaround, m) ==
    IF m = 0 THEN From(s, i)
    ELSE SubSingleAt(s, i, c, lt, rt, lookaround, m, SingleClose(s, m, c))

SubSingle(s, i, c, lt, rt, lookaround) ==
    SubSingleFirst(s, i, c, lt, rt, lookaround,
                   FirstOf({ j \in i..Len(s) : SingleMatch(s, j, c, lookaround) }))

\* the ']' that ends the link text opened by '[' at position a (0 when none)
LinkMid(s, a) == FindFrom(s, a + 1, << "]" >>)

\* the ')' that ends the link target behind the ']' at position b
LinkClose(s, b) == FindFrom(s, b + 2, << ")" >>)

\* \[([^\]]+)\]\(([^)]+)\) matches at position a with its ']' at b and
\* its ')' at e
LinkMatchAt(s, a, b, e) ==
    /\ s[a] = "["
    /\ b # 0
    /\ b > a + 1
    /\ HasAt(s, b + 1, << "(" >>)
    /\ e # 0
    /\ e <= Len(s)
    /\ e > b + 2

LinkMatchMid(s, a, b) == LinkMatchAt(s, a, b, LinkClose(s, b))

LinkMatch(s, a) == LinkMatchMid(s, a, LinkMid(s, a))

\* re.sub(\[([^\]]+)\]\(([^)]+)\), <link href="\2">\1</link>, s) from position i
RECURSIVE SubLink(_, _)
SubLinkAt(s, i, m, b, e) ==
    SubSeq(s, i, m - 1)
        \o <<"<","l","i","n","k"," ","h","r","e","f","=","\"">>
        \o SubSeq(s, b + 2, e - 1) \o <<"\"",">">>
        \o SubSeq(s, m + 1, b - 1) \o <<"<","/","l","i","n","k",">">>
        \o SubLink(s, e + 1)

SubLinkMid(s, i, m, b) == SubLinkAt(s, i, m, b, LinkClose(s, b))

SubLinkFirst(s, i, m) ==
    IF m = 0 THEN From(s, i) ELSE SubLinkMid(s, i, m, LinkMid(s, m))

SubLink(s, i) == SubLinkFirst(s, i, FirstOf({ j \in i..Len(s) : LinkMatch(s, j) }))

\* re.sub(r'\*\*\*\*(.*?)\*\*\*\*', ...), then '**', then '__'
process_bold_text(text) ==
    SubLazy(SubLazy(SubLazy(text, 1, <<"*","*","*","*">>, <<"<","b",">">>, <<"<","/","b",">">>),
                    1, <<"*","*">>, <<"<","b",">">>, <<"<","/","b",">">>),
            1, <<"_","_">>, <<"<","b",">">>, <<"<","/","b",">">>)

process_italic_text(text) ==
    SubSingle(SubSingle(text, 1, "*", <<"<","i",">">>, <<"<","/","i",">">>, TRUE),
              1, "_", <<"<","i",">">>, <<"<","/","i",">">>, TRUE)

\* the backquote character (a TLA+ string literal cannot hold it)
Backquote == "backquote"

process_code_text(text) ==
    SubSingle(text, 1, Backquote, <<"<","c","o","d","e",">">>, <<"<","/","c","o","d","e",">">>, FALSE)

process_markdown_text(text) ==
    IF text = <<>> THEN text
    ELSE SubLink(process_code_text(process_italic_text(process_bold_text(text))), 1)

\* ------------------------------------------------------------------------
\* Markdown tokenizer: _parse_markdown_enhanced
\* ------------------------------------------------------------------------

\* The element tuples ('paragraph', text, section_type), ('header', text,
\* level, section_type), ('list_item', text, indent), ('numbered_list', text,
\* number), ('quote', text), ('hr', '') as records of one shape; the fields
\* a tuple does not have hold 0, "" or <<>>.
Element(kind, text, level, section_type, number, indent) ==
    [kind |-> kind, text |-> text, level |-> level,
     section_type |-> section_type, number |-> number, indent |-> indent]

ParagraphElement(current_paragraph) ==
    Element("paragraph", process_markdown_text(Strip(current_paragraph)), 0,
            detect_section_type(Strip(current_paragraph)), <<>>, 0)

\* FlushParagraph without the reset of current_paragraph
FlushParagraph_NoReset(st) ==
    IF st.current_paragraph # <<>>
    THEN [st EXCEPT !.elements = Append(st.elements, ParagraphElement(st.current_paragraph))]
    ELSE st

\* if current_paragraph: elements.append(('paragraph', ...)); current_paragraph = ""
FlushParagraph(st) ==
    IF st.current_paragraph # <<>>
    THEN [elements |-> Append(st.elements, ParagraphElement(st.current_paragraph)),
          current_paragraph |-> <<>>]
    ELSE st

\* elements.append(('header', header_text, header_level, section_type))
HeaderElement(header_text, header_level) ==
    Element("header", header_text, header_level,
            detect_section_type(header_text), <<>>, 0)

\* parts = line.split('. ', 1); elements.append(('numbered_list', text, parts[0]))
NumberedElement(parts) ==
    Element("numbered_list", process_markdown_text(Strip(parts[2])), 0,
            "", parts[1], 0)

\* HeaderLevel with the level clamped to the deepest header style
HeaderLevel_Clamped(line) ==
    LET n == IF \A i \in 1..Len(line) : line[i] = "#"
             THEN Len(line)
             ELSE (CHOOSE i \in 1..Len(line) :
                     /\ line[i] # "#"
                     /\ \A k \in 1..(i - 1) : line[k] = "#") - 1
    IN  IF n > 4 THEN 4 ELSE n

\* header_level: the number of leading '#' characters of the line
HeaderLevel(line) ==
    IF \A i \in 1..Len(line) : line[i] = "#"
    THEN Len(line)
    ELSE (CHOOSE i \in 1..Len(line) :
            /\ line[i] # "#"
            /\ \A k \in 1..(i - 1) : line[k] = "#") - 1

\* MatchesBullet without the whitespace behind the marker
MatchesBullet_MarkerOnly(line) ==
    /\ Len(line) >= 2
    /\ line[1] \in {"-", "*", "+"}

\* re.match(r'^[\-\*\+]\s+', line)
MatchesBullet(line) ==
    /\ Len(line) >= 2
    /\ line[1] \in {"-", "*", "+"}
    /\ line[2] \in Whitespace

\* the number of leading digits of the line
DigitRun(line) ==
    IF \A i \in 1..Len(line) : line[i] \in Digits
    THEN Len(line)
    ELSE (CHOOSE i \in 1..Len(line) :
            /\ line[i] \notin Digits
            /\ \A k \in 1..(i - 1) : line[k] \in Digits) - 1

\* re.match(r'^\d+\.\s+', line)
MatchesNumbered(line) ==
    LET d == DigitRun(line)
    IN  /\ d >= 1
        /\ Len(line) >= d + 2
        /\ line[d + 1] = "."
        /\ line[d + 2] \in Whitespace

RuleLines == { <<"-","-","-">>, <<"*","*","*">>, <<"_","_","_">> }

\* the branch of the loop body that the stripped line takes
LineKind(line) ==
    IF line = <<>> THEN "blank"
    ELSE IF StartsWith(line, <<"#">>) THEN "header"
    ELSE IF MatchesBullet(line) THEN "list_item"
    ELSE IF MatchesNumbered(line) /\ Len(SplitOnce(line, <<"."," ">>)) = 2
         THEN "numbered_list"
    ELSE IF MatchesNumbered(line) THEN "numbered_fallthrough"
    ELSE IF StartsWith(line, <<">"," ">>) THEN "quote"
    ELSE IF line \in RuleLines THEN "hr"
    ELSE "text"

\* Accumulate without the joining space
Accumulate_NoSpace(st, line) ==
    [st EXCEPT !.current_paragraph = st.current_paragraph \o line]

\* if current_paragraph: current_paragraph += " " + line, else: = line
Accumulate(st, line) ==
    [st EXCEPT !.current_paragraph =
        IF st.current_paragraph # <<>>
        THEN st.current_paragraph \o <<" ">> \o line
        ELSE line]

\* the branch `kind` of the loop body, on the stripped line and the state
\* fl left by the flush of the pending paragraph
ParseBranch(st, fl, original_line, line, kind) ==
    CASE kind = "blank" -> fl
      [] kind = "header" ->
            [fl EXCEPT !.elements = Append(fl.elements,
                HeaderElement(Strip(From(line, HeaderLevel(line) + 1)), HeaderLevel(line)))]
      [] kind = "list_item" ->
            [fl EXCEPT !.elements = Append(fl.elements,
                Element("list_item", process_markdown_text(Strip(From(line, 3))), 0,
                        "", <<>>, Len(original_line) - Len(LStrip(original_line))))]
      [] kind = "numbered_list" ->
            [fl EXCEPT !.elements = Append(fl.elements,
                NumberedElement(SplitOnce(line, <<"."," ">>)))]
      [] kind = "numbered_fallthrough" ->
            \* len(parts) # 2: the paragraph was flushed, nothing was
            \* appended, and the line (it starts with a digit) passes the
            \* blockquote and rule tests and lands in the text branch
            Accumulate(fl, line)
      [] kind = "quote" ->
            [fl EXCEPT !.elements = Append(fl.elements,
                Element("quote", process_markdown_text(Strip(From(line, 3))),
                        0, "", <<>>, 0))]
      [] kind = "hr" ->
            [fl EXCEPT !.elements = Append(fl.elements,
                Element("hr", <<>>, 0, "", <<>>, 0))]
      [] OTHER -> Accumulate(st, line)

ParseStripped(st, original_line, line) ==
    ParseBranch(st, FlushParagraph(st), original_line, line, LineKind(line))

\* one iteration of the loop over lines
ParseLine(st, original_line) == ParseStripped(st, original_line, Strip(original_line))

\* text.replace('\\n', '\n').replace('\\t', '\t')
FixEscapes(text) == Replace(Replace(text, <<"\\","n">>, <<"\n">>), <<"\\","t">>, <<"\t">>)

\* TextLines without the escape fix
TextLines_NoFix(text) == Split(text, <<"\n">>)

\* lines = text.split('\n') after the escape fix
TextLines(text) == Split(FixEscapes(text), <<"\n">>)

RECURSIVE ParseLines(_, _, _)
ParseLines(st, lines, i) ==
    IF i > Len(lines) THEN st
    ELSE ParseLines(ParseLine(st, lines[i]), lines, i + 1)

parse_markdown_enhanced(text) ==
    IF text = <<>> THEN <<>>
    ELSE FlushParagraph(
            ParseLines([elements |-> <<>>, current_paragraph |-> <<>>],
                       TextLines(text), 1)).elements

\* ------------------------------------------------------------------------
\* Date formatting: _format_date (datetime.strptime / strftime)
\* ------------------------------------------------------------------------

DigitChars == <<"0","1","2","3","4","5","6","7","8","9">>

DigitVal(c) == (CHOOSE n \in 1..10 : DigitChars[n] = c) - 1

IsDigitAt(s, i) == i >= 1 /\ i <= Len(s) /\ s[i] \in Digits

\* locale abbreviated month names, lower case (%b is matched ignoring case)
MonthAbbr ==
    << <<"j","a","n">>, <<"f","e","b">>, <<"m","a","r">>, <<"a","p","r">>, <<"m","a","y">>, <<"j","u","n">>,
       <<"j","u","l">>, <<"a","u","g">>, <<"s","e","p">>, <<"o","c","t">>, <<"n","o","v">>, <<"d","e","c">> >>

\* locale abbreviated weekday names, lower case
WeekdayAbbr ==
    << <<"m","o","n">>, <<"t","u","e">>, <<"w","e","d">>, <<"t","h","u">>, <<"f","r","i">>, <<"s","a","t">>, <<"s","u","n">> >>

\* locale full month names (%B)
MonthName ==
    << <<"J","a","n","u","a","r","y">>, <<"F","e","b","r","u","a","r","y">>, <<"M","a","r","c","h">>, <<"A","p","r","i","l">>, <<"M","a","y">>, <<"J","u","n","e">>,
       <<"J","u","l","y">>, <<"A","u","g","u","s","t">>, <<"S","e","p","t","e","m","b","e","r">>, <<"O","c","t","o","b","e","r">>, <<"N","o","v","e","m","b","e","r">>,
       <<"D","e","c","e","m","b","e","r">> >>

\* the directives and literals of the three formats tried by _format_date
DateFormats ==
    << << "a", ",", "ws", "d", "ws", "b", "ws", "Y", "ws", "H", ":", "M", ":", "S" >>,
       << "Y", "-", "m", "-", "d" >>,
       << "d", "ws", "b", "ws", "Y" >> >>

\* the matches at position i of s of a one- or two-digit number whose value
\* lies in lo..hi, as the regex alternatives of %d, %m, %H, %M and %S allow
\* (zero1: a one-digit match may be "0")
NumberMatches(s, i, lo, hi, zero1) ==
    (IF /\ IsDigitAt(s, i) /\ IsDigitAt(s, i + 1)
        /\ 10 * DigitVal(s[i]) + DigitVal(s[i + 1]) >= lo
        /\ 10 * DigitVal(s[i]) + DigitVal(s[i + 1]) <= hi
     THEN { [next |-> i + 2, val |-> 10 * DigitVal(s[i]) + DigitVal(s[i + 1])] }
     ELSE {})
    \cup
    (IF IsDigitAt(s, i) /\ (zero1 \/ s[i] # "0")
     THEN { [next |-> i + 1, val |-> DigitVal(s[i])] }
     ELSE {})

\* the matches of one directive or literal of a format at position i of s:
\* the position after the match and the value matched
MatchField(s, i, f) ==
    CASE f = "ws" ->
            { [next |-> j, val |-> 0] : j \in
                { k \in (i + 1)..(Len(s) + 1) :
                    \A q \in i..(k - 1) : s[q] \in Whitespace } }
      [] f = "d" ->
            NumberMatches(s, i, 1, 31, FALSE)
            \cup (IF /\ i + 1 <= Len(s) /\ s[i] = " "
                     /\ s[i + 1] \in Digits /\ s[i + 1] # "0"
                  THEN { [next |-> i + 2, val |-> DigitVal(s[i + 1])] }
                  ELSE {})
      [] f = "m" -> NumberMatches(s, i, 1, 12, FALSE)
      [] f = "H" -> NumberMatches(s, i, 0, 23, TRUE)
      [] f = "M" -> NumberMatches(s, i, 0, 59, TRUE)
      [] f = "S" -> NumberMatches(s, i, 0, 61, TRUE)
      [] f = "Y" ->
            IF \A q \in i..(i + 3) : IsDigitAt(s, q)
            THEN { [next |-> i + 4,
                    val |-> 1000 * DigitVal(s[i]) + 100 * DigitVal(s[i + 1])
                            + 10 * DigitVal(s[i + 2]) + DigitVal(s[i + 3])] }
            ELSE {}
      [] f = "b" ->
            { [next |-> i + 3, val |-> n] : n \in
                { k \in 1..12 : /\ i + 2 <= Len(s)
                                /\ Lower(SubSeq(s, i, i + 2)) = MonthAbbr[k] } }
      [] f = "a" ->
            { [next |-> i + 3, val |-> n] : n \in
                { k \in 1..7 : /\ i + 2 <= Len(s)
                               /\ Lower(SubSeq(s, i, i + 2)) = WeekdayAbbr[k] } }
      [] OTHER ->
            IF i <= Len(s) /\ s[i] = f
            THEN { [next |-> i + 1, val |-> 0] }
            ELSE {}

\* the parses of the whole of s by the directives fmt[k..], continuing the
\* partial parse st (the position reached and the fields found so far)
RECURSIVE ParseFrom(_, _, _, _)
ParseFrom(s, fmt, k, st) ==
    IF k > Len(fmt)
    THEN IF st.pos = Len(s) + 1 THEN {st} ELSE {}
    ELSE UNION { ParseFrom(s, fmt, k + 1,
                    [pos |-> r.next,
                     d |-> IF fmt[k] = "d" THEN r.val ELSE st.d,
                     m |-> IF fmt[k] \in {"b", "m"} THEN r.val ELSE st.m,
                     Y |-> IF fmt[k] = "Y" THEN r.val ELSE st.Y,
                     S |-> IF fmt[k] = "S" THEN r.val ELSE st.S])
                 : r \in MatchField(s, st.pos, fmt[k]) }

IsLeap(y) == (y % 4 = 0 /\ y % 100 # 0) \/ y % 400 = 0

DaysInMonth(y, m) ==
    IF m = 2 THEN (IF IsLeap(y) THEN 29 ELSE 28)
    ELSE IF m \in {4, 6, 9, 11} THEN 30 ELSE 31

\* the dates datetime.strptime(s, fmt) can return: a full match of the
\* format whose fields make a valid datetime (otherwise ValueError)
Strptime(s, fmt) ==
    { p \in ParseFrom(s, fmt, 1, [pos |-> 1, d |-> 1, m |-> 1, Y |-> 1900, S |-> 0]) :
        /\ p.Y >= 1
        /\ p.d <= DaysInMonth(p.Y, p.m)
        /\ p.S <= 59 }

\* str(n) for a natural number
RECURSIVE NatStr(_)
NatStr(n) ==
    IF n < 10 THEN << DigitChars[n + 1] >>
    ELSE NatStr(n \div 10) \o << DigitChars[(n % 10) + 1] >>

\* parsed_date.strftime('%B %d, %Y')
Strftime(p) ==
    MonthName[p.m] \o <<" ">>
        \o (IF p.d < 10 THEN <<"0">> ELSE <<>>) \o NatStr(p.d)
        \o <<","," ">> \o NatStr(p.Y)

format_date(date_string) ==
    LET ds == IF Contains(date_string, <<"G","M","T">>)
              THEN Strip(Replace(date_string, <<"G","M","T">>, <<>>))
              ELSE date_string
        ok == { k \in 1..Len(DateFormats) : Strptime(ds, DateFormats[k]) # {} }
    IN  IF ok = {} THEN ds
        ELSE LET k == CHOOSE q \in ok : \A r \in ok : q <= r
             IN  Strftime(CHOOSE p \in Strptime(ds, DateFormats[k]) : TRUE)

\* ------------------------------------------------------------------------
\* Report assembler: story blocks, _create_table_of_contents,
\* _format_source_name, _clean_html, generate_report
\* ------------------------------------------------------------------------

\* The non-ASCII literals of src/_02_pdf_generator.py, character by
\* character as the file holds them; a character is named by its code point
BulletChar == << "u00e2", "u20ac", "u00a2" >>

SpeechBalloon == << "u00f0", "u0178", "u2019", "u00ac" >>

BoxLine == << "u00e2", "u201d", "u20ac" >>

ClipboardEmoji == << "u00f0", "u0178", "u201c", "u2039" >>

NewspaperEmoji == << "u00f0", "u0178", "u201c", "u00b0" >>

ClockEmoji == << "u00f0", "u0178", "u2022", "u2019" >>

\* datetime.now().strftime('%B %d, %Y at %I:%M %p'), a value of the run's clock
NowText == << "now" >>

\* A flowable of the story.  kind is the reportlab class, style the
\* ParagraphStyle attribute of the generator; role names the statement of
\* generate_report that appended it.
Blk(kind, text, style, role, content, height) ==
    [kind |-> kind, text |-> text, style |-> style, role |-> role,
     content |-> content, height |-> height]

Paragraph(text, style, role) == Blk("Paragraph", text, style, role, <<>>, 0)

Spacer(height, role) == Blk("Spacer", <<>>, "", role, <<>>, height)

PageBreak(role) == Blk("PageBreak", <<>>, "", role, <<>>, 0)

KeepTogether(content) == Blk("KeepTogether", <<>>, "", "keep_together", content, 0)

IsHeaderElement(e) == e.kind = "header"

\* the style of a table-of-contents entry
TocStyle(header_level) ==
    IF header_level = 1 THEN "title_style"
    ELSE IF header_level = 2 THEN "section_header_style"
    ELSE "long_content_style"

\* TocIndent without any indentation
TocIndent_Flat(header_level) == <<>>

\* "&nbsp;" * (header_level - 1) * 4
TocIndent(header_level) ==
    Join([i \in 1..((header_level - 1) * 4) |-> <<"&","n","b","s","p",";">>], <<>>)

TocEntry(e) ==
    Paragraph(TocIndent(e.level) \o BulletChar \o <<" ">> \o e.text,
              TocStyle(e.level), "toc_entry")

\* create_table_of_contents without the closing page break
create_table_of_contents_NoPageBreak(elements) ==
    LET headers == SelectSeq(elements, IsHeaderElement)
    IN  << Paragraph(ClipboardEmoji \o <<" ","T","a","b","l","e"," ","o","f"," ","C","o","n","t","e","n","t","s">>,
                     "report_title_style", "toc_title"),
           Spacer(15, "toc_spacer") >>
        \o [i \in 1..Len(headers) |-> TocEntry(headers[i])]
        \o << Spacer(20, "toc_spacer") >>

create_table_of_contents(elements) ==
    LET headers == SelectSeq(elements, IsHeaderElement)
    IN  << Paragraph(ClipboardEmoji \o <<" ","T","a","b","l","e"," ","o","f"," ","C","o","n","t","e","n","t","s">>,
                     "report_title_style", "toc_title"),
           Spacer(15, "toc_spacer") >>
        \o [i \in 1..Len(headers) |-> TocEntry(headers[i])]
        \o << Spacer(20, "toc_spacer"), PageBreak("toc_pagebreak") >>

\* source_mapping of _format_source_name
source_mapping ==
    << << <<"e","t","h","e","r","e","u","m","_","b","l","o","g">>, <<"E","t","h","e","r","e","u","m"," ","B","l","o","g">> >>,
       << <<"a","r","b","i","t","r","u","m","_","m","e","d","i","u","m">>, <<"A","r","b","i","t","r","u","m"," ","M","e","d","i","u","m">> >>,
       << <<"p","o","l","y","g","o","n","_","b","l","o","g">>, <<"P","o","l","y","g","o","n"," ","B","l","o","g">> >>,
       << <<"s","o","l","a","n","a","_","n","e","w","s">>, <<"S","o","l","a","n","a"," ","N","e","w","s">> >>,
       << <<"f","l","o","w","_","b","l","o","g">>, <<"F","l","o","w"," ","B","l","o","g">> >> >>

\* str.title(): a letter is upper-cased after a non-letter, lower-cased after a letter
Title(s) ==
    [i \in 1..Len(s) |->
        IF IsAlpha(s[i])
        THEN (IF i = 1 \/ ~IsAlpha(s[i - 1]) THEN UpperChar(s[i]) ELSE LowerChar(s[i]))
        ELSE s[i]]

format_source_name(source) ==
    IF \E i \in 1..Len(source_mapping) : source_mapping[i][1] = source
    THEN source_mapping[CHOOSE i \in 1..Len(source_mapping) :
                            source_mapping[i][1] = source][2]
    ELSE Title(Replace(source, <<"_">>, <<" ">>))

\* BeautifulSoup(html_text, 'html.parser').get_text() for text whose only
\* markup is tags <...> opened by '<' and a letter or '/': the complete
\* tags are dropped, everything else is kept
\* the '>' that ends the tag opened at position a (0 when none)
TagClose(s, a) == FindFrom(s, a + 1, << ">" >>)

\* a complete tag opens at position a and closes at e
TagMatchAt(s, a, e) ==
    /\ s[a] = "<"
    /\ a + 1 <= Len(s)
    /\ (IsAlpha(s[a + 1]) \/ s[a + 1] = "/")
    /\ e # 0
    /\ e <= Len(s)

TagMatch(s, a) == TagMatchAt(s, a, TagClose(s, a))

RECURSIVE GetText(_, _)
GetTextFirst(s, i, m) ==
    IF m = 0 THEN From(s, i)
    ELSE SubSeq(s, i, m - 1) \o GetText(s, TagClose(s, m) + 1)

GetText(s, i) == GetTextFirst(s, i, FirstOf({ j \in i..Len(s) : TagMatch(s, j) }))

\* str.split(): the maximal runs of non-whitespace characters
RECURSIVE Words(_, _)
Words(s, i) ==
    IF \A k \in i..Len(s) : s[k] \in Whitespace THEN <<>>
    ELSE LET a == CHOOSE k \in i..Len(s) :
                    /\ s[k] \notin Whitespace
                    /\ \A q \in i..(k - 1) : s[q] \in Whitespace
             b == IF \E k \in a..Len(s) : s[k] \in Whitespace
                  THEN (CHOOSE k \in a..Len(s) :
                            /\ s[k] \in Whitespace
                            /\ \A q \in a..(k - 1) : s[q] \notin Whitespace)
                  ELSE Len(s) + 1
         IN  << SubSeq(s, a, b - 1) >> \o Words(s, b)

\* _clean_html of src/pdf_generator.py
clean_html(html_text) ==
    IF html_text = <<>> THEN <<>>
    ELSE Join(Words(GetText(html_text, 1), 1), <<" ">>)

\* GroupArticle without the test for a source seen before
GroupArticle_NoMerge(d, article) ==
    [keys |-> Append(d.keys, article.source),
     lists |-> Append(d.lists, << article >>)]

\* the grouping loop: articles_by_source as the insertion-ordered dict it
\* is, keys[i] being the i-th key and lists[i] its value
GroupArticle(d, article) ==
    IF \E i \in 1..Len(d.keys) : d.keys[i] = article.source
    THEN LET i == CHOOSE q \in 1..Len(d.keys) : d.keys[q] = article.source
         IN  [d EXCEPT !.lists[i] = Append(@, article)]
    ELSE [keys |-> Append(d.keys, article.source),
          lists |-> Append(d.lists, << article >>)]

RECURSIVE GroupArticles(_, _, _)
GroupArticles(d, arts, i) ==
    IF i > Len(arts) THEN d
    ELSE GroupArticles(GroupArticle(d, arts[i]), arts, i + 1)

\* is_structured of src/_02_pdf_generator.py
StructuredLen == 500

\* is_structured with the length test off by one
is_structured_AtLeast(summary) ==
    \/ Len(summary) >= StructuredLen
    \/ Count(summary, <<"#">>) > 2
    \/ Count(summary, <<"*","*">>) > 3
    \/ Count(summary, <<"-"," ">>) > 3
    \/ Contains(summary, <<"\\","n">>)

is_structured(summary) ==
    \/ Len(summary) > StructuredLen
    \/ Count(summary, <<"#">>) > 2
    \/ Count(summary, <<"*","*">>) > 3
    \/ Count(summary, <<"-"," ">>) > 3
    \/ Contains(summary, <<"\\","n">>)

\* the truncation of a summary that is too long
TruncateLen == 600

\* Truncate without the ellipsis
Truncate_NoEllipsis(summary) ==
    IF Len(summary) > TruncateLen
    THEN SubSeq(summary, 1, TruncateLen)
    ELSE summary

Truncate(summary) ==
    IF Len(summary) > TruncateLen
    THEN SubSeq(summary, 1, TruncateLen) \o <<".",".",".">>
    ELSE summary

\* the table of contents is made when there are more elements than this
TocThreshold == 10

\* leftIndent of the paragraph styles of _setup_styles (0, reportlab's
\* default, for a style that sets none)
StyleLeftIndent(style) ==
    CASE style \in {"link_style", "summary_style", "executive_summary_style",
                    "methodology_style", "deliverable_style", "background_style",
                    "research_areas_style", "timeline_style", "investment_style"} -> 20
      [] style \in {"long_content_style", "objective_style"} -> 25
      [] style \in {"numbered_list_style", "enhanced_quote_style"} -> 30
      [] style = "enhanced_bullet_list_style" -> 35
      [] style = "proposal_h2_style" -> 10
      [] style = "proposal_h3_style" -> 15
      [] OTHER -> 0

\* the style of a paragraph element of the enhanced layout
ParagraphStyleOf(section_type) ==
    IF section_type = "executive_summary" THEN "executive_summary_style"
    ELSE IF section_type = "objective" THEN "objective_style"
    ELSE IF section_type = "methodology" THEN "methodology_style"
    ELSE IF section_type = "deliverable" THEN "deliverable_style"
    ELSE IF section_type = "background" THEN "background_style"
    ELSE IF section_type = "research_areas" THEN "research_areas_style"
    ELSE IF section_type = "timeline" THEN "timeline_style"
    ELSE IF section_type = "investment" THEN "investment_style"
    ELSE "long_content_style"

\* the style of a header element of the enhanced layout
HeaderStyleOf(header_level) ==
    IF header_level = 1 THEN "title_style"
    ELSE IF header_level = 2 THEN "proposal_h2_style"
    ELSE IF header_level = 3 THEN "proposal_h3_style"
    ELSE "h4_style"

\* one iteration of the loop over markdown_elements: the new story and
\* current_section
LayoutElement(st, element) ==
    CASE element.kind = "paragraph" ->
            IF element.text # <<>>
            THEN [story |-> Append(st.story,
                        Paragraph(element.text,
                                  ParagraphStyleOf(element.section_type), "paragraph")),
                  current_section |-> Append(st.current_section,
                        Paragraph(element.text, "long_content_style", "section_copy"))]
            ELSE st
      [] element.kind = "header" ->
            LET with_header == Append(st.story,
                    Paragraph(element.text, HeaderStyleOf(element.level), "header"))
            IN  IF st.current_section # <<>>
                THEN [story |-> Append(with_header, KeepTogether(st.current_section)),
                      current_section |-> <<>>]
                ELSE [st EXCEPT !.story = with_header]
      [] element.kind = "list_item" ->
            [st EXCEPT !.story = Append(@,
                Paragraph(BulletChar \o <<" ">> \o element.text,
                          "enhanced_bullet_list_style", "list_item"))]
      [] element.kind = "numbered_list" ->
            [st EXCEPT !.story = Append(@,
                Paragraph(element.number \o <<"."," ">> \o element.text,
                          "numbered_list_style", "numbered_list"))]
      [] element.kind = "quote" ->
            [st EXCEPT !.story = Append(@,
                Paragraph(SpeechBalloon \o <<" ">> \o element.text,
                          "enhanced_quote_style", "quote"))]
      [] OTHER ->
            [st EXCEPT !.story = @ \o
                << Spacer(10, "hr_spacer"),
                   Paragraph(Join(Rep(BoxLine, 60), <<>>), "long_content_style", "hr"),
                   Spacer(10, "hr_spacer") >>]

\* the title, date and link blocks of one article
ArticleHead(article) ==
    << Paragraph(article.title, "title_style", "article_title"),
       Paragraph(<<"P","u","b","l","i","s","h","e","d",":"," ">> \o format_date(article.date), "date_style", "date"),
       Paragraph(<<"L","i","n","k",":"," ">> \o article.link, "link_style", "link") >>

\* ------------------------------------------------------------------------
\* State
\* ------------------------------------------------------------------------

VARIABLES
    generator,           \* which Web3NewsPDFGenerator runs: "enhanced"
                         \* (src/_02_pdf_generator.py) or "basic" (src/pdf_generator.py)
    articles,            \* the argument of generate_report
    pc,                  \* the statement generate_report has reached
    doc,                 \* the SimpleDocTemplate: "none", "created", "built"
    story,               \* the list of flowables
    articles_by_source,  \* the dict of the grouping loop
    si,                  \* index of the source of the outer loop
    ai,                  \* index of the article of the inner loop
    markdown_elements,   \* the elements of the structured article in layout
    ei,                  \* index of the element of the layout loop
    current_section,     \* the section buffer of the layout loop
    result,              \* "none", "ValueError" or "returned"
    tok_text,            \* the argument of _parse_markdown_enhanced
    tok_lines,           \* lines
    tok_i,               \* index of the line of the loop
    elements,            \* elements
    current_paragraph,   \* current_paragraph
    tok_pc,              \* the statement _parse_markdown_enhanced has reached
    cls_words,           \* the words the classified text was made of
    cls_text,            \* the argument of _detect_section_type
    cls_result,          \* its return value
    cls_pc,              \* "idle", "call" or "done"
    date_string,         \* the argument of _format_date
    date_result,         \* its return value
    date_pc,             \* "idle", "call" or "done"
    snd_env,             \* os.environ as EmailSender.__init__ finds it
    snd_result,          \* the constructed EmailSender, or the error raised
    snd_pc,              \* "idle", "call" or "done"
    etl_entry,           \* the call that is modelled: "main" or "send_email_notification"
    etl_env,             \* os.environ as NewsScraperETL.__init__ finds it
    etl_pc,              \* the statement main / run_pipeline has reached
    etl_log,             \* the stages entered and the I/O performed, in order
    etl_scraped,         \* the articles as scrape_articles returned them
    etl_articles,        \* self.articles
    etl_processed,       \* processed_articles of generate_ai_proposals
    etl_i,               \* index of the article of its loop
    etl_outcomes,        \* what happened to each article: "skipped", "ok", "fail"
    etl_pdf_path,        \* pdf_path ("None" for None)
    etl_files,           \* the paths that exist on disk
    etl_sender,          \* what the sender did: "not_called", "True", "False", "raise"
    etl_email,           \* the return value of send_email_notification
    etl_result,          \* how main ended: "none", "ConfigError", "FatalError", "True", "False"
    mail_to,             \* send_email's argument to: None, a str or a list of str
    mail_subject,        \* its argument subject
    mail_message,        \* its argument message
    mail_attachments,    \* its argument attachments: None, a str or a list of str
    mail_files,          \* the paths that exist on disk
    mail_pc,             \* "idle", "call", "attach" or "done"
    mail_i,              \* index of the attachment path of the loop
    mail_attached,       \* the files attached to email_message so far
    mail_sends,          \* the calls of email_message.send, each with what it carried
    mail_result,         \* "none", or the returned "True" or "False"
    fmt_text,            \* the argument of _process_markdown_text
    fmt_once,            \* what it returned
    fmt_twice,           \* what it returned when called on that result
    fmt_pc,              \* "idle", "call", "again" or "done"
    scr_feeds,           \* what each configured source answers
    scr_pc,              \* "idle", "source", "entries" or "done"
    scr_si,              \* index of the source of the loop
    scr_ei,              \* index of the entry of the inner loop
    scr_examined,        \* the entries looked at: << source index, entry index >>
    scr_articles         \* articles

report_vars == << generator, articles, pc, doc, story, articles_by_source, si, ai,
                  markdown_elements, ei, current_section, result >>

tok_vars == << tok_text, tok_lines, tok_i, elements, current_paragraph, tok_pc >>

cls_vars == << cls_words, cls_text, cls_result, cls_pc >>

date_vars == << date_string, date_result, date_pc >>

snd_vars == << snd_env, snd_result, snd_pc >>

etl_vars == << etl_entry, etl_env, etl_pc, etl_log, etl_scraped, etl_articles,
               etl_processed, etl_i, etl_outcomes, etl_pdf_path, etl_files,
               etl_sender, etl_email, etl_result >>

mail_vars == << mail_to, mail_subject, mail_message, mail_attachments, mail_files,
                mail_pc, mail_i, mail_attached, mail_sends, mail_result >>

fmt_vars == << fmt_text, fmt_once, fmt_twice, fmt_pc >>

scr_vars == << scr_feeds, scr_pc, scr_si, scr_ei, scr_examined, scr_articles >>

\* the variables of the operations outside the PDF generator
ext_vars == << date_vars, snd_vars, etl_vars, mail_vars, fmt_vars, scr_vars >>

vars == << generator, articles, pc, doc, story, articles_by_source, si, ai,
           markdown_elements, ei, current_section, result,
           tok_text, tok_lines, tok_i, elements, current_paragraph, tok_pc,
           cls_words, cls_text, cls_result, cls_pc,
           date_string, date_result, date_pc,
           snd_env, snd_result, snd_pc,
           etl_entry, etl_env, etl_pc, etl_log, etl_scraped, etl_articles,
           etl_processed, etl_i, etl_outcomes, etl_pdf_path, etl_files,
           etl_sender, etl_email, etl_result,
           mail_to, mail_subject, mail_message, mail_attachments, mail_files,
           mail_pc, mail_i, mail_attached, mail_sends, mail_result,
           fmt_text, fmt_once, fmt_twice, fmt_pc,
           scr_feeds, scr_pc, scr_si, scr_ei, scr_examined, scr_articles >>

\* ------------------------------------------------------------------------
\* generate_report, statement by statement
\* ------------------------------------------------------------------------

Article(source, title, link, date, summary) ==
    [source |-> source, title |-> title, link |-> link, date |-> date,
     summary |-> summary]

CurrentSource == articles_by_source.keys[si]

CurrentArticle == articles_by_source.lists[si][ai]

\* the text of the report title (the enhanced generator adds an emoji)
ReportTitleText(gen) ==
    (IF gen = "enhanced" THEN NewspaperEmoji \o <<" ">> ELSE <<>>)
        \o <<"W","e","b","3"," ","N","e","w","s"," ","U","p","d","a","t","e","s"," ","R","e","p","o","r","t">>

\* the text of the generation date line
ReportDateText(gen) ==
    (IF gen = "enhanced" THEN ClockEmoji \o <<" ">> ELSE <<>>)
        \o <<"G","e","n","e","r","a","t","e","d"," ","o","n"," ">> \o NowText

\* not articles, with the test dropped
NoArticles_Skipped(arts) == FALSE

\* not articles
NoArticles(arts) == arts = <<>>

\* the page break test, without the comparison with the last source
NeedsPageBreak_AfterLast(keys, source) == Len(keys) > 1

\* len(articles_by_source) > 1 and source != list(articles_by_source.keys())[-1]
NeedsPageBreak(keys, source) ==
    /\ Len(keys) > 1
    /\ source # keys[Len(keys)]

\* if not articles: raise ValueError(...)
RaiseNoArticles ==
    /\ pc = "call"
    /\ NoArticles(articles)
    /\ result' = "ValueError"
    /\ pc' = "done"
    /\ UNCHANGED << generator, articles, doc, story, articles_by_source, si, ai,
                    markdown_elements, ei, current_section >>
    /\ UNCHANGED << tok_vars, cls_vars, ext_vars >>

\* doc = SimpleDocTemplate(...); the report header; the grouping loop
BeginReport ==
    /\ pc = "call"
    /\ ~NoArticles(articles)
    /\ doc' = "created"
    /\ story' = << Paragraph(ReportTitleText(generator),
                             "report_title_style", "report_title"),
                   Paragraph(ReportDateText(generator),
                             "report_date_style", "report_date"),
                   Spacer(20, "header_spacer") >>
    /\ articles_by_source' = GroupArticles([keys |-> <<>>, lists |-> <<>>], articles, 1)
    /\ si' = 1
    /\ pc' = "source"
    /\ UNCHANGED << generator, articles, ai, markdown_elements, ei,
                    current_section, result >>
    /\ UNCHANGED << tok_vars, cls_vars, ext_vars >>

\* for source, source_articles in articles_by_source.items(): the source header
SourceHeader ==
    /\ pc = "source"
    /\ si <= Len(articles_by_source.keys)
    /\ story' = Append(story, Paragraph(format_source_name(CurrentSource),
                                        "source_header_style", "source_header"))
    /\ ai' = 1
    /\ pc' = "article"
    /\ UNCHANGED << generator, articles, doc, articles_by_source, si,
                    markdown_elements, ei, current_section, result >>
    /\ UNCHANGED << tok_vars, cls_vars, ext_vars >>

\* src/pdf_generator.py: one article, its summary cleaned and truncated
ArticleBasic ==
    /\ pc = "article"
    /\ generator = "basic"
    /\ ai <= Len(articles_by_source.lists[si])
    /\ story' = story \o ArticleHead(CurrentArticle)
                  \o << Paragraph(Truncate(clean_html(CurrentArticle.summary)),
                                  "summary_style", "summary"),
                        Spacer(15, "article_spacer") >>
    /\ ai' = ai + 1
    /\ UNCHANGED << generator, articles, pc, doc, articles_by_source, si,
                    markdown_elements, ei, current_section, result >>
    /\ UNCHANGED << tok_vars, cls_vars, ext_vars >>

\* src/_02_pdf_generator.py: one article on the else branch of is_structured
ArticlePlain ==
    /\ pc = "article"
    /\ generator = "enhanced"
    /\ ai <= Len(articles_by_source.lists[si])
    /\ ~is_structured(CurrentArticle.summary)
    /\ story' = story \o ArticleHead(CurrentArticle)
                  \o << Paragraph(Truncate(CurrentArticle.summary),
                                  "summary_style", "summary"),
                        Spacer(15, "article_spacer") >>
    /\ ai' = ai + 1
    /\ UNCHANGED << generator, articles, pc, doc, articles_by_source, si,
                    markdown_elements, ei, current_section, result >>
    /\ UNCHANGED << tok_vars, cls_vars, ext_vars >>

\* src/_02_pdf_generator.py: one article on the is_structured branch, up to
\* the start of the loop over markdown_elements
ArticleStructured ==
    /\ pc = "article"
    /\ generator = "enhanced"
    /\ ai <= Len(articles_by_source.lists[si])
    /\ is_structured(CurrentArticle.summary)
    /\ LET parsed == parse_markdown_enhanced(CurrentArticle.summary)
       IN  /\ markdown_elements' = parsed
           /\ story' = story \o ArticleHead(CurrentArticle)
                         \o (IF Len(parsed) > TocThreshold
                             THEN create_table_of_contents(parsed)
                             ELSE <<>>)
    /\ current_section' = <<>>
    /\ ei' = 1
    /\ pc' = "layout"
    /\ UNCHANGED << generator, articles, doc, articles_by_source, si, ai, result >>
    /\ UNCHANGED << tok_vars, cls_vars, ext_vars >>

\* for element in markdown_elements: one iteration
LayoutStep ==
    /\ pc = "layout"
    /\ ei <= Len(markdown_elements)
    /\ LET st == LayoutElement([story |-> story, current_section |-> current_section],
                               markdown_elements[ei])
       IN  /\ story' = st.story
           /\ current_section' = st.current_section
    /\ ei' = ei + 1
    /\ UNCHANGED << generator, articles, pc, doc, articles_by_source, si, ai,
                    markdown_elements, result >>
    /\ UNCHANGED << tok_vars, cls_vars, ext_vars >>

\* after the loop: the remaining section, the space between articles
EndStructured ==
    /\ pc = "layout"
    /\ ei > Len(markdown_elements)
    /\ story' = (IF current_section # <<>>
                 THEN Append(story, KeepTogether(current_section))
                 ELSE story)
                \o << Spacer(15, "article_spacer") >>
    /\ ai' = ai + 1
    /\ pc' = "article"
    /\ UNCHANGED << generator, articles, doc, articles_by_source, si,
                    markdown_elements, ei, current_section, result >>
    /\ UNCHANGED << tok_vars, cls_vars, ext_vars >>

\* after the articles of a source: the page break between sources
EndSource ==
    /\ pc = "article"
    /\ ai > Len(articles_by_source.lists[si])
    /\ story' = IF NeedsPageBreak(articles_by_source.keys, CurrentSource)
                THEN Append(story, PageBreak("source_pagebreak"))
                ELSE story
    /\ si' = si + 1
    /\ pc' = "source"
    /\ UNCHANGED << generator, articles, doc, articles_by_source, ai,
                    markdown_elements, ei, current_section, result >>
    /\ UNCHANGED << tok_vars, cls_vars, ext_vars >>

\* doc.build(story); return self.output_filename
BuildReport ==
    /\ pc = "source"
    /\ si > Len(articles_by_source.keys)
    /\ doc' = "built"
    /\ result' = "returned"
    /\ pc' = "done"
    /\ UNCHANGED << generator, articles, story, articles_by_source, si, ai,
                    markdown_elements, ei, current_section >>
    /\ UNCHANGED << tok_vars, cls_vars, ext_vars >>

\* ------------------------------------------------------------------------
\* _parse_markdown_enhanced, statement by statement
\* ------------------------------------------------------------------------

\* if not text: return []; the escape fix; lines = text.split('\n')
TokBegin ==
    /\ tok_pc = "call"
    /\ IF tok_text = <<>>
       THEN /\ tok_pc' = "done"
            /\ tok_lines' = <<>>
       ELSE /\ tok_pc' = "loop"
            /\ tok_lines' = TextLines(tok_text)
    /\ tok_i' = 1
    /\ elements' = <<>>
    /\ current_paragraph' = <<>>
    /\ UNCHANGED << tok_text, report_vars, cls_vars, ext_vars >>

\* for i, line in enumerate(lines): one iteration
TokLine ==
    /\ tok_pc = "loop"
    /\ tok_i <= Len(tok_lines)
    /\ LET st == ParseLine([elements |-> elements,
                            current_paragraph |-> current_paragraph],
                           tok_lines[tok_i])
       IN  /\ elements' = st.elements
           /\ current_paragraph' = st.current_paragraph
    /\ tok_i' = tok_i + 1
    /\ UNCHANGED << tok_text, tok_lines, tok_pc, report_vars, cls_vars, ext_vars >>

\* after the loop: add any remaining paragraph; return elements
TokEnd ==
    /\ tok_pc = "loop"
    /\ tok_i > Len(tok_lines)
    /\ LET st == FlushParagraph([elements |-> elements,
                                 current_paragraph |-> current_paragraph])
       IN  /\ elements' = st.elements
           /\ current_paragraph' = st.current_paragraph
    /\ tok_pc' = "done"
    /\ UNCHANGED << tok_text, tok_lines, tok_i, report_vars, cls_vars, ext_vars >>

\* ------------------------------------------------------------------------
\* _detect_section_type as an operation
\* ------------------------------------------------------------------------

Classify ==
    /\ cls_pc = "call"
    /\ cls_result' = detect_section_type(cls_text)
    /\ cls_pc' = "done"
    /\ UNCHANGED << cls_words, cls_text, report_vars, tok_vars, ext_vars >>

\* ------------------------------------------------------------------------
\* _format_date as an operation
\* ------------------------------------------------------------------------

FormatDate ==
    /\ date_pc = "call"
    /\ date_result' = format_date(date_string)
    /\ date_pc' = "done"
    /\ UNCHANGED << date_string, report_vars, tok_vars, cls_vars, snd_vars, etl_vars, mail_vars, fmt_vars, scr_vars >>

\* ------------------------------------------------------------------------
\* EmailSender.__init__ (src/email_sender.py)
\* ------------------------------------------------------------------------

\* An environment variable: unset, or set to a text (which may be empty).
EnvUnset == [set |-> FALSE, val |-> <<>>]

EnvSet(text) == [set |-> TRUE, val |-> text]

\* os.getenv(name, default)
Getenv(env, name, default) == IF env[name].set THEN env[name].val ELSE default

\* not os.getenv(name): the variable is unset or empty
Falsy(env, name) == ~env[name].set \/ env[name].val = <<>>

\* the value of a non-empty run of decimal digits
RECURSIVE DigitsValue(_)
DigitsValue(ds) ==
    IF Len(ds) = 0 THEN 0
    ELSE 10 * DigitsValue(SubSeq(ds, 1, Len(ds) - 1)) + DigitVal(ds[Len(ds)])

\* the digits of an int() literal body: digits, single underscores allowed
\* between two digits
IsIntBody(b) ==
    /\ Len(b) >= 1
    /\ \A i \in 1..Len(b) : b[i] \in Digits \/ b[i] = "_"
    /\ b[1] # "_"
    /\ b[Len(b)] # "_"
    /\ \A i \in 1..(Len(b) - 1) : ~(b[i] = "_" /\ b[i + 1] = "_")

IsDigitChar(c) == c \in Digits

\* the text without its sign
Unsigned(t) == IF Len(t) >= 1 /\ t[1] \in {"+", "-"} THEN Tail(t) ELSE t

\* int(port_str) on the stripped text t: [ok, val]
IntOfStripped(t) ==
    IF ~IsIntBody(Unsigned(t)) THEN [ok |-> FALSE, val |-> 0]
    ELSE [ok |-> TRUE,
          val |-> (IF t[1] = "-" THEN -1 ELSE 1)
                    * DigitsValue(SelectSeq(Unsigned(t), IsDigitChar))]

\* int(s): surrounding whitespace is ignored, ValueError is ok = FALSE
ParseInt(s) == IntOfStripped(Strip(s))

DefaultPort == <<"5","8","7">>

MaxPort == 65535

\* the range test, without its upper end
PortInRange_NoUpper(port) == ~(port <= 0)

\* not (self.port <= 0 or self.port > 65535)
PortInRange(port) == ~(port <= 0 \/ port > MaxPort)

SenderError == [error |-> "ValueError", host |-> <<>>, port |-> 0,
                username |-> <<>>, password |-> <<>>, use_tls |-> FALSE]

\* tls_str -> self.use_tls
UseTls(tls_str) ==
    IF Lower(tls_str) \notin { <<"t","r","u","e">>, <<"f","a","l","s","e">> }
    THEN TRUE
    ELSE Lower(tls_str) = <<"t","r","u","e">>

\* the port checks of __init__ on the parsed port p
SenderWithPort(env, p) ==
    IF ~p.ok THEN SenderError
    ELSE IF ~PortInRange(p.val) THEN SenderError
    ELSE IF Falsy(env, "EMAIL_USER") THEN SenderError
    ELSE IF Falsy(env, "EMAIL_PASSWORD") THEN SenderError
    ELSE [error |-> "none",
          host |-> env["EMAIL_HOST"].val,
          port |-> p.val,
          username |-> env["EMAIL_USER"].val,
          password |-> env["EMAIL_PASSWORD"].val,
          use_tls |-> UseTls(Getenv(env, "EMAIL_USE_TLS", <<"t","r","u","e">>))]

\* EmailSender(): the fields of the new object, or the ValueError that every
\* failure is re-raised as
EmailSenderInit(env) ==
    IF Falsy(env, "EMAIL_HOST") THEN SenderError
    ELSE SenderWithPort(env, ParseInt(Getenv(env, "EMAIL_PORT", DefaultPort)))

SenderInit ==
    /\ snd_pc = "call"
    /\ snd_result' = EmailSenderInit(snd_env)
    /\ snd_pc' = "done"
    /\ UNCHANGED << snd_env, report_vars, tok_vars, cls_vars, date_vars, etl_vars, mail_vars, fmt_vars, scr_vars >>

\* ------------------------------------------------------------------------
\* The pipeline: main, NewsScraperETL.__init__, run_pipeline and its stages
\* (src/_04_report_etl.py)
\* ------------------------------------------------------------------------

required_vars == <<"ANTHROPIC_API_KEY", "ANTHROPIC_MODEL", "EMAIL_USER">>

\* missing_vars, with ANTHROPIC_MODEL left out of the required variables
MissingVars_NoModel(env) ==
    { v \in {"ANTHROPIC_API_KEY", "EMAIL_USER"} : Falsy(env, v) }

\* missing_vars = [var for var in required_vars if not os.getenv(var)]
MissingVars(env) ==
    { v \in { required_vars[k] : k \in 1..Len(required_vars) } : Falsy(env, v) }

\* main: NewsScraperETL() with a required variable missing: load_dotenv()
\* reads the .env file, then _validate_environment raises; main reports the
\* fatal error and exits
EtlConfigError ==
    /\ etl_pc = "main"
    /\ MissingVars(etl_env) # {}
    /\ etl_log' = Append(etl_log, "load_dotenv")
    /\ etl_result' = "ConfigError"
    /\ etl_pc' = "done"
    /\ UNCHANGED << etl_entry, etl_env, etl_scraped, etl_articles, etl_processed,
                    etl_i, etl_outcomes, etl_pdf_path, etl_files, etl_sender,
                    etl_email >>
    /\ UNCHANGED << report_vars, tok_vars, cls_vars, date_vars, snd_vars, mail_vars, fmt_vars, scr_vars >>

\* main: NewsScraperETL() with the required variables set: load_dotenv(),
\* the validation, then the scraper, the Anthropic client and the
\* EmailSender are constructed; a constructor may raise
EtlConstruct ==
    /\ etl_pc = "main"
    /\ MissingVars(etl_env) = {}
    /\ etl_log' = Append(etl_log, "load_dotenv")
    /\ \E components \in {"ok", "raise"} :
            IF components = "ok"
            THEN /\ etl_pc' = "run_pipeline"
                 /\ etl_result' = etl_result
            ELSE /\ etl_pc' = "done"
                 /\ etl_result' = "FatalError"
    /\ UNCHANGED << etl_entry, etl_env, etl_scraped, etl_articles, etl_processed,
                    etl_i, etl_outcomes, etl_pdf_path, etl_files, etl_sender,
                    etl_email >>
    /\ UNCHANGED << report_vars, tok_vars, cls_vars, date_vars, snd_vars, mail_vars, fmt_vars, scr_vars >>

\* an article as the scraper returns it; id stands for its title and link
ScrapedArticle(id, summary) ==
    [id |-> id, summary |-> summary, ai_proposal |-> "absent"]

\* the longest list of articles the scraper returns here
MaxEtlArticles == 2

\* the lists scrape_rss_feeds can return, up to MaxEtlArticles articles, each
\* with or without a summary
ScrapeResults ==
    UNION { { [k \in 1..n |-> ScrapedArticle(k, ss[k])] :
                ss \in [1..n -> {"", "news"}] } : n \in 0..MaxEtlArticles }

\* run_pipeline step 1: self.articles = self.scrape_articles(); an empty
\* list, or an exception of the scraper, ends the run with False
EtlScrape ==
    /\ etl_pc = "run_pipeline"
    /\ etl_log' = etl_log \o <<"scrape", "network">>
    /\ \E outcome \in {"raise", "returns"} :
        \E found \in ScrapeResults :
            IF outcome = "raise"
            THEN /\ found = <<>>
                 /\ etl_scraped' = <<>>
                 /\ etl_articles' = <<>>
                 /\ etl_result' = "False"
                 /\ etl_pc' = "done"
            ELSE /\ etl_scraped' = found
                 /\ etl_articles' = found
                 /\ IF found = <<>>
                    THEN etl_result' = "False" /\ etl_pc' = "done"
                    ELSE etl_result' = etl_result /\ etl_pc' = "generate_ai_proposals"
    /\ UNCHANGED << etl_entry, etl_env, etl_processed, etl_i, etl_outcomes,
                    etl_pdf_path, etl_files, etl_sender, etl_email >>
    /\ UNCHANGED << report_vars, tok_vars, cls_vars, date_vars, snd_vars, mail_vars, fmt_vars, scr_vars >>

\* generate_ai_proposals up to its loop: processed_articles = []
EtlEnrichBegin ==
    /\ etl_pc = "generate_ai_proposals"
    /\ etl_log' = Append(etl_log, "enrich")
    /\ IF etl_articles = <<>>
       THEN etl_pc' = "generate_pdf_report"
       ELSE etl_pc' = "enrich_loop"
    /\ etl_processed' = <<>>
    /\ etl_i' = 1
    /\ etl_outcomes' = <<>>
    /\ UNCHANGED << etl_entry, etl_env, etl_scraped, etl_articles, etl_pdf_path,
                    etl_files, etl_sender, etl_email, etl_result >>
    /\ UNCHANGED << report_vars, tok_vars, cls_vars, date_vars, snd_vars, mail_vars, fmt_vars, scr_vars >>

ErrorProposal == "Error generating proposal"

\* what the loop does to an article when the call of the model behaves as
\* outcome ("ok" or "fail"), with a failure also replacing the summary
EnrichArticle_FailureReplacesSummary(article, outcome, text) ==
    IF article.summary = ""
    THEN article
    ELSE IF outcome = "ok"
         THEN [article EXCEPT !.ai_proposal = text, !.summary = text]
         ELSE [article EXCEPT !.ai_proposal = ErrorProposal, !.summary = ErrorProposal]

\* what the loop does to an article when the call of the model behaves as
\* outcome ("ok" or "fail"): an article without summary is left alone
EnrichArticle(article, outcome, text) ==
    IF article.summary = ""
    THEN article
    ELSE IF outcome = "ok"
         THEN [article EXCEPT !.ai_proposal = text, !.summary = text]
         ELSE [article EXCEPT !.ai_proposal = ErrorProposal]

\* one iteration of the loop of generate_ai_proposals
EtlEnrich ==
    /\ etl_pc = "enrich_loop"
    /\ etl_i <= Len(etl_articles)
    /\ \E outcome \in {"ok", "fail"} :
        LET article == etl_articles[etl_i]
        IN /\ etl_processed' =
                  Append(etl_processed, EnrichArticle(article, outcome, "proposal"))
           /\ IF article.summary = ""
              THEN /\ outcome = "ok"
                   /\ etl_outcomes' = Append(etl_outcomes, "skipped")
                   /\ etl_log' = etl_log
              ELSE /\ etl_outcomes' = Append(etl_outcomes, outcome)
                   /\ etl_log' = Append(etl_log, "ai_call")
    /\ etl_i' = etl_i + 1
    /\ UNCHANGED << etl_entry, etl_env, etl_pc, etl_scraped, etl_articles,
                    etl_pdf_path, etl_files, etl_sender, etl_email, etl_result >>
    /\ UNCHANGED << report_vars, tok_vars, cls_vars, date_vars, snd_vars, mail_vars, fmt_vars, scr_vars >>

\* the loop is over: return processed_articles, which run_pipeline stores
\* in self.articles
EtlEnrichEnd ==
    /\ etl_pc = "enrich_loop"
    /\ etl_i > Len(etl_articles)
    /\ etl_articles' = etl_processed
    /\ etl_pc' = "generate_pdf_report"
    /\ UNCHANGED << etl_entry, etl_env, etl_log, etl_scraped, etl_processed, etl_i,
                    etl_outcomes, etl_pdf_path, etl_files, etl_sender, etl_email,
                    etl_result >>
    /\ UNCHANGED << report_vars, tok_vars, cls_vars, date_vars, snd_vars, mail_vars, fmt_vars, scr_vars >>

ReportPath == "report.pdf"

\* `if not pdf_path` of run_pipeline, taken never
NoPath_Never(pdf_path) == FALSE

\* `not pdf_path`: None and the empty string
NoPath(pdf_path) == pdf_path \in {"None", ""}

\* run_pipeline step 3: generate_pdf_report returns the path of the
\* written file, or None when there are no articles or the generator
\* raises; without a path the run ends with False
EtlPdf ==
    /\ etl_pc = "generate_pdf_report"
    /\ \E outcome \in {"ok", "raise"} :
            IF etl_articles = <<>> \/ outcome = "raise"
            THEN /\ etl_pdf_path' = "None"
                 /\ etl_files' = etl_files
                 /\ etl_log' = Append(etl_log, "pdf")
            ELSE /\ etl_pdf_path' = ReportPath
                 /\ etl_files' = etl_files \cup {ReportPath}
                 /\ etl_log' = etl_log \o <<"pdf", "pdf_write">>
    /\ IF NoPath(etl_pdf_path')
       THEN etl_result' = "False" /\ etl_pc' = "done"
       ELSE etl_result' = etl_result /\ etl_pc' = "send_email_notification"
    /\ UNCHANGED << etl_entry, etl_env, etl_scraped, etl_articles, etl_processed,
                    etl_i, etl_outcomes, etl_sender, etl_email >>
    /\ UNCHANGED << report_vars, tok_vars, cls_vars, date_vars, snd_vars, mail_vars, fmt_vars, scr_vars >>

\* the first test of send_email_notification, without the look at the disk
PdfMissing_NoExists(pdf_path, files) == NoPath(pdf_path)

\* `not pdf_path or not os.path.exists(pdf_path)`
PdfMissing(pdf_path, files) == NoPath(pdf_path) \/ pdf_path \notin files

\* the value send_email_notification returns when the sender behaved as
\* outcome: its result, or False when it raised
NotifyReturn(outcome) == IF outcome = "raise" THEN "False" ELSE outcome

\* the result of run_pipeline taken from the email step
PipelineResult_Email(email_success) == email_success

\* run_pipeline behind step 4: email_success is printed, and True returned
PipelineResult(email_success) == "True"

\* send_email_notification(pdf_path), called by run_pipeline as step 4 or
\* on its own; run_pipeline returns True whatever the call returned
EtlNotify ==
    /\ etl_pc = "send_email_notification"
    /\ IF PdfMissing(etl_pdf_path, etl_files)
       THEN /\ etl_sender' = "not_called"
            /\ etl_email' = "False"
            /\ etl_log' = Append(etl_log, "email")
       ELSE \E outcome \in {"True", "False", "raise"} :
            /\ etl_sender' = outcome
            /\ etl_email' = NotifyReturn(outcome)
            /\ etl_log' = etl_log \o <<"email", "smtp_send">>
    /\ etl_result' = IF etl_entry = "main" THEN PipelineResult(etl_email') ELSE etl_result
    /\ etl_pc' = "done"
    /\ UNCHANGED << etl_entry, etl_env, etl_scraped, etl_articles, etl_processed,
                    etl_i, etl_outcomes, etl_pdf_path, etl_files >>
    /\ UNCHANGED << report_vars, tok_vars, cls_vars, date_vars, snd_vars, mail_vars, fmt_vars, scr_vars >>

\* ------------------------------------------------------------------------
\* EmailSender.send_email (src/email_sender.py)
\* ------------------------------------------------------------------------

\* the arguments to and attachments: None, a str or a list of str
PyNone == [type |-> "none", val |-> <<>>]

PyStr(text) == [type |-> "str", val |-> text]

PyList(items) == [type |-> "list", val |-> items]

\* `not x` for None, a str or a list
PyFalsy(x) == x.type = "none" \/ x.val = <<>>

\* `not subject or not subject.strip()`
Blank(text) == text = <<>> \/ Strip(text) = <<>>

\* the format test of an address, looking for the '@' alone
BadAddress_AtOnly(email) == ~Contains(email, <<"@">>)

\* `'@' not in to or '.' not in to`
BadAddress(email) == ~Contains(email, <<"@">>) \/ ~Contains(email, <<".">>)

\* the input validation: the message of the ValueError raised, or "ok"
Validate(to, subject, message) ==
    IF PyFalsy(to) THEN "Recipient email address is required"
    ELSE IF Blank(subject) THEN "Email subject is required"
    ELSE IF Blank(message) THEN "Email message content is required"
    ELSE IF to.type = "str" /\ BadAddress(to.val) THEN "Invalid email format"
    ELSE IF to.type = "list"
            /\ \E k \in 1..Len(to.val) : to.val[k] = <<>> \/ BadAddress(to.val[k])
         THEN "Invalid email format in list"
    ELSE "ok"

\* the paths the attachment loop goes through: none when attachments is
\* None or empty, the one path of a str, the paths of a list
AttachmentPaths(attachments) ==
    IF PyFalsy(attachments) THEN <<>>
    ELSE IF attachments.type = "str" THEN << attachments.val >>
    ELSE attachments.val

\* send_email up to the attachments: a ValueError of the validation is
\* caught at the end of the function, which returns False
MailValidate ==
    /\ mail_pc = "call"
    /\ IF Validate(mail_to, mail_subject, mail_message) = "ok"
       THEN mail_pc' = "attach" /\ mail_result' = mail_result
       ELSE mail_pc' = "done" /\ mail_result' = "False"
    /\ UNCHANGED << mail_to, mail_subject, mail_message, mail_attachments, mail_files,
                    mail_i, mail_attached, mail_sends >>
    /\ UNCHANGED << report_vars, tok_vars, cls_vars, date_vars, snd_vars, etl_vars,
                    fmt_vars, scr_vars >>

\* one iteration of the attachment loop: an empty path, the path of no
\* file and a file that cannot be read are skipped with a warning
MailAttach ==
    /\ mail_pc = "attach"
    /\ mail_i <= Len(AttachmentPaths(mail_attachments))
    /\ \E read \in {"ok", "IOError"} :
        LET attachment_path == AttachmentPaths(mail_attachments)[mail_i]
        IN  IF attachment_path = <<>> \/ attachment_path \notin mail_files
            THEN read = "ok" /\ mail_attached' = mail_attached
            ELSE mail_attached' = IF read = "ok"
                                  THEN Append(mail_attached, attachment_path)
                                  ELSE mail_attached
    /\ mail_i' = mail_i + 1
    /\ UNCHANGED << mail_to, mail_subject, mail_message, mail_attachments, mail_files,
                    mail_pc, mail_sends, mail_result >>
    /\ UNCHANGED << report_vars, tok_vars, cls_vars, date_vars, snd_vars, etl_vars,
                    fmt_vars, scr_vars >>

\* what email_message.send can do: answer with status 250 or another
\* status, return None or an object without status_code, or raise
TransportOutcomes ==
    {"250", "550", "None", "no_status_code", "ConnectionError", "TimeoutError", "Exception"}

\* the value returned after the send
SendReturn(outcome) == IF outcome = "250" THEN "True" ELSE "False"

\* the loop is over: email_message.send(to=to, smtp=smtp_config), once
MailSend ==
    /\ mail_pc = "attach"
    /\ mail_i > Len(AttachmentPaths(mail_attachments))
    /\ \E outcome \in TransportOutcomes :
        /\ mail_sends' = Append(mail_sends,
                                [attached |-> mail_attached, outcome |-> outcome])
        /\ mail_result' = SendReturn(outcome)
    /\ mail_pc' = "done"
    /\ UNCHANGED << mail_to, mail_subject, mail_message, mail_attachments, mail_files,
                    mail_i, mail_attached >>
    /\ UNCHANGED << report_vars, tok_vars, cls_vars, date_vars, snd_vars, etl_vars,
                    fmt_vars, scr_vars >>

\* ------------------------------------------------------------------------
\* _process_markdown_text as an operation, called on a text and then on
\* its own result
\* ------------------------------------------------------------------------

FormatInline ==
    /\ fmt_pc = "call"
    /\ fmt_once' = process_markdown_text(fmt_text)
    /\ fmt_pc' = "again"
    /\ UNCHANGED << fmt_text, fmt_twice >>
    /\ UNCHANGED << report_vars, tok_vars, cls_vars, date_vars, snd_vars, etl_vars,
                    mail_vars, scr_vars >>

FormatAgain ==
    /\ fmt_pc = "again"
    /\ fmt_twice' = process_markdown_text(fmt_once)
    /\ fmt_pc' = "done"
    /\ UNCHANGED << fmt_text, fmt_once >>
    /\ UNCHANGED << report_vars, tok_vars, cls_vars, date_vars, snd_vars, etl_vars,
                    mail_vars, scr_vars >>

\* ------------------------------------------------------------------------
\* BlockchainNewsScraper.scrape_rss_feeds (src/_01_blockchain_news_scraper.py)
\* ------------------------------------------------------------------------

\* the keys of self.sources, in the order of the dict
ScraperSources == <<"ethereum_blog", "arbitrum_medium">>

upgrade_keywords ==
    << <<"u","p","g","r","a","d","e">>, <<"u","p","d","a","t","e">>, <<"f","o","r","k">>,
       <<"h","a","r","d","f","o","r","k">>, <<"t","e","s","t","n","e","t">>,
       <<"m","a","i","n","n","e","t">>, <<"r","e","l","e","a","s","e">>,
       <<"v","e","r","s","i","o","n">>, <<"p","r","o","t","o","c","o","l">>,
       <<"n","e","t","w","o","r","k">> >>

\* any(keyword.lower() in text.lower() for keyword in keywords)
is_upgrade_related(text) ==
    \E k \in 1..Len(upgrade_keywords) : Contains(Lower(text), Lower(upgrade_keywords[k]))

\* the number of entries of a feed that are looked at
LatestCount == 3

\* feed.entries without the limit
LatestEntries_All(entries) == entries

\* feed.entries[:3]
LatestEntries(entries) ==
    SubSeq(entries, 1, IF Len(entries) < LatestCount THEN Len(entries) ELSE LatestCount)

\* the other variables of the scraper's run are those of no other operation
ScrOthersUnchanged ==
    UNCHANGED << report_vars, tok_vars, cls_vars, date_vars, snd_vars, etl_vars,
                 mail_vars, fmt_vars >>

\* one source up to its entries: a source that is not accessible, or whose
\* test or parse raises, or whose feed has no entry, is left for the next one
ScrSource ==
    /\ scr_pc = "source"
    /\ scr_si <= Len(scr_feeds)
    /\ IF scr_feeds[scr_si].status = "ok" /\ Len(scr_feeds[scr_si].entries) > 0
       THEN scr_pc' = "entries" /\ scr_si' = scr_si
       ELSE scr_pc' = "source" /\ scr_si' = scr_si + 1
    /\ scr_ei' = 1
    /\ UNCHANGED << scr_feeds, scr_examined, scr_articles >>
    /\ ScrOthersUnchanged

\* one entry of feed.entries[:3]: an article when title + " " + summary is
\* upgrade related; an exception ends the source
ScrEntry ==
    /\ scr_pc = "entries"
    /\ scr_ei <= Len(LatestEntries(scr_feeds[scr_si].entries))
    /\ scr_examined' = Append(scr_examined, << scr_si, scr_ei >>)
    /\ LET entry == LatestEntries(scr_feeds[scr_si].entries)[scr_ei]
       IN  IF entry.raises
           THEN /\ scr_articles' = scr_articles
                /\ scr_pc' = "source"
                /\ scr_si' = scr_si + 1
                /\ scr_ei' = 1
           ELSE /\ scr_articles' =
                    IF is_upgrade_related(entry.title \o <<" ">> \o entry.summary)
                    THEN Append(scr_articles,
                                [source |-> ScraperSources[scr_si], title |-> entry.title,
                                 summary |-> entry.summary])
                    ELSE scr_articles
                /\ scr_pc' = scr_pc
                /\ scr_si' = scr_si
                /\ scr_ei' = scr_ei + 1
    /\ UNCHANGED scr_feeds
    /\ ScrOthersUnchanged

\* the entries of the source are done
ScrEndSource ==
    /\ scr_pc = "entries"
    /\ scr_ei > Len(LatestEntries(scr_feeds[scr_si].entries))
    /\ scr_pc' = "source"
    /\ scr_si' = scr_si + 1
    /\ scr_ei' = 1
    /\ UNCHANGED << scr_feeds, scr_examined, scr_articles >>
    /\ ScrOthersUnchanged

\* the sources are done: return articles
ScrReturn ==
    /\ scr_pc = "source"
    /\ scr_si > Len(scr_feeds)
    /\ scr_pc' = "done"
    /\ UNCHANGED << scr_feeds, scr_si, scr_ei, scr_examined, scr_articles >>
    /\ ScrOthersUnchanged

\* ------------------------------------------------------------------------
\* Inputs
\* ------------------------------------------------------------------------

\* the sequences over S of length at most n
BoundedSeq(S, n) == UNION { [1..k -> S] : k \in 0..n }

\* longest article list handed to generate_report
MaxArticles == 3

\* most lines of a tokenized text
MaxLines == 3

\* most '#' characters of a header line
MaxHashes == 5

\* most words of a classified text
MaxClsWords == 2

Generators == { "enhanced", "basic" }

SampleDate == <<"F","r","i",","," ","2","2"," ","A","u","g"," ","2","0","2","5"," ","0","0",":","0","0",":","0","0"," ","G","M","T">>

SampleLink == <<"h","t","t","p","s",":","/","/","x",".","o","r","g","/","a">>

\* two mapped sources and one that source_mapping does not know
ReportSources == { <<"e","t","h","e","r","e","u","m","_","b","l","o","g">>, <<"a","r","b","i","t","r","u","m","_","m","e","d","i","u","m">>, <<"m","y","_","f","e","e","d">> }

\* a short plain article and a structured one
ReportTemplates ==
    { [title |-> <<"T","1">>, summary |-> <<"a","b">>],
      [title |-> <<"T","2">>, summary |-> <<"i","n","t","r","o","\\","n","#"," ","G","o","a","l","s","\\","n","b","o","d","y">>] }

ReportArticles ==
    { Article(src, t.title, SampleLink, SampleDate, t.summary) :
        src \in ReportSources, t \in ReportTemplates }

\* the i-th line of a document of one element per line
DocLine(i) ==
    CASE i % 4 = 1 -> <<"#"," ","P","l","a","n">>
      [] i % 4 = 2 -> <<"t","e","x","t">>
      [] i % 4 = 3 -> <<"#","#"," ","B","u","d","g","e","t">>
      [] OTHER     -> <<"-"," ","i","t","e","m">>

\* a document of n elements, its lines separated by escaped newlines
Doc(n) == Join([i \in 1..n |-> DocLine(i)], <<"\\","n">>)

\* a header line of n '#' characters
HeaderLine(n) == Rep("#", n) \o <<" ","X">>

\* a document of 11 elements with headers of the levels 1 to 5, out of order
DeepDoc ==
    Join(<< HeaderLine(1), <<"t">>, HeaderLine(3), <<"-"," ","i">>, HeaderLine(4), <<"t">>,
            HeaderLine(2), <<"-"," ","i">>, HeaderLine(5), <<"t">>, <<"-"," ","i">> >>,
         <<"\\","n">>)

\* summaries on and around every threshold of the routing and the
\* truncation, with and without markers, markup and whitespace runs
RouteSummaries ==
    { Rep("a", 2),
      Rep("a", StructuredLen), Rep("a", StructuredLen + 1),
      Rep("a", TruncateLen), Rep("a", TruncateLen + 1), Rep("a", 650),
      Rep("a", TruncateLen - 2) \o <<" "," ","b">>,
      <<"#","#">>, <<"#","#","#">>, Rep("*", 6), Rep("*", 8),
      <<"-"," ","-"," ","-"," ">>, <<"-"," ","-"," ","-"," ","-"," ">>,
      <<"a","\\","n","b">>, <<"a"," "," ","b"," ">>, <<"<","b",">","x","<","/","b",">"," ","y">>,
      <<"i","n","t","r","o","\\","n","#"," ","S","u","m","m","a","r","y","\\","n","b","o","d","y","\\","n","#","#"," ","G","o","a","l","s","\\","n","-"," ","x","\\","n","t","a","i","l">>,
      <<"#"," ","G","\\","n","-"," ","a","\\","n"," "," ","-"," ","b","\\","n","1","."," ","c","\\","n",">"," ","q","\\","n","-","-","-">>,
      Doc(TocThreshold), Doc(TocThreshold + 1), DeepDoc }

RouteArticles ==
    { Article(<<"f","l","o","w","_","b","l","o","g">>, <<"T">>, SampleLink, SampleDate, sm) :
        sm \in RouteSummaries }

TokLineSet ==
    { <<>>, <<"a","l","p","h","a">>, <<" ","b","e","t","a"," ">>, <<"*","i","t","*">>,
      <<"-"," ","i","t","e","m">>, <<"1","."," ","o","n","e">>, <<">"," ","q">>, <<"-","-","-">>,
      HeaderLine(1) }

\* a header line of every depth, alone and behind one other line
HeaderSeqs ==
    { << HeaderLine(n) >> : n \in 1..MaxHashes }
        \cup { << l, HeaderLine(n) >> : l \in TokLineSet, n \in 1..MaxHashes }

\* lines on the edges of the rules: a bullet before a header or a quote
\* marker, the rules of '*' and '_', lines that start with digits with and
\* without the separator of a numbered item, a tab (real or escaped) behind
\* the dot
EdgeLines ==
    { <<"-"," ","#"," ","h">>, <<"*"," ",">"," ","q">>, <<"+","\t","k">>,
      <<"*","*","*">>, <<"_","_","_">>,
      <<"1","2","."," ","b">>, <<"7","."," "," ","z">>, <<"2"," ","x">>,
      <<"1",".","\t","x">>, <<"3",".","\\","t","w">>, <<"1",".","\t","x","."," ","y">> }

\* an edge line alone, behind a plain line, and between two plain lines
EdgeSeqs ==
    { << l >> : l \in EdgeLines }
        \cup { << <<"a","l","p","h","a">>, l >> : l \in EdgeLines }
        \cup { << <<"a","l","p","h","a">>, l, <<"b","e","t","a">> >> : l \in EdgeLines }

\* the texts handed to the tokenizer: lines joined by real or by escaped
\* newlines
TokTexts ==
    { Join(ls, sep) : ls \in BoundedSeq(TokLineSet, MaxLines) \cup HeaderSeqs \cup EdgeSeqs,
                      sep \in { <<"\n">>, <<"\\","n">> } }

\* words with and without keywords, among them keywords that contain
\* another category's keyword
ClsWordSet ==
    { <<"s","u","m","m","a","r","y">>, <<"e","x","e","c","u","t","i","v","e"," ","o","v","e","r","v","i","e","w">>, <<"o","v","e","r","v","i","e","w">>, <<"t","a","r","g","e","t","s">>,
      <<"p","h","a","s","e">>, <<"f","o","c","u","s"," ","a","r","e","a","s">>, <<"m","i","l","e","s","t","o","n","e","s">>, <<"b","u","d","g","e","t">>,
      <<"d","e","l","i","v","e","r","a","b","l","e">>, <<"q","u","e","s","t","i","o","n","s">>, <<"u","s","e","r","s">>, <<"n","o","t","h","i","n","g">> }

Upper(s) == [i \in 1..Len(s) |-> UpperChar(s[i])]

\* a text of the words ws: as written, in upper case, in title case
\* between punctuation
ClsTextOf(ws, decoration) ==
    LET joined == Join(ws, <<" ","a","n","d"," ">>)
    IN  CASE decoration = "plain" -> joined
          [] decoration = "upper" -> Upper(joined)
          [] OTHER -> <<" ","(">> \o Title(joined) \o <<")",":"," ">>

ClsDecorations == { "plain", "upper", "punct" }

\* ------------------------------------------------------------------------
\* Specification
\* ------------------------------------------------------------------------

ReportFresh ==
    /\ doc = "none"
    /\ story = <<>>
    /\ articles_by_source = [keys |-> <<>>, lists |-> <<>>]
    /\ si = 1
    /\ ai = 1
    /\ markdown_elements = <<>>
    /\ ei = 1
    /\ current_section = <<>>
    /\ result = "none"

ReportInit ==
    /\ generator \in Generators
    /\ articles \in BoundedSeq(ReportArticles, MaxArticles)
                    \cup { << a >> : a \in RouteArticles }
    /\ pc = "call"
    /\ ReportFresh

ReportIdle ==
    /\ generator = "enhanced"
    /\ articles = <<>>
    /\ pc = "idle"
    /\ ReportFresh

TokFresh ==
    /\ tok_lines = <<>>
    /\ tok_i = 1
    /\ elements = <<>>
    /\ current_paragraph = <<>>

TokInit ==
    /\ tok_text \in TokTexts
    /\ tok_pc = "call"
    /\ TokFresh

TokIdle ==
    /\ tok_text = <<>>
    /\ tok_pc = "idle"
    /\ TokFresh

ClsInit ==
    /\ cls_words \in BoundedSeq(ClsWordSet, MaxClsWords) \ { <<>> }
    /\ \E decoration \in ClsDecorations : cls_text = ClsTextOf(cls_words, decoration)
    /\ cls_result = ""
    /\ cls_pc = "call"

ClsIdle ==
    /\ cls_words = <<>>
    /\ cls_text = <<>>
    /\ cls_result = ""
    /\ cls_pc = "idle"

\* date strings in each known format, with and without the GMT suffix, and
\* strings in none
DateTexts ==
    { SampleDate,
      SubSeq(SampleDate, 1, Len(SampleDate) - 4),
      <<"2","0","2","5","-","0","8","-","2","2">>,
      <<"2","0","2","5","-","0","8","-","2","2"," ","G","M","T">>,
      <<"2","2"," ","A","u","g"," ","2","0","2","5">>,
      <<"2","0","2","5","-","0","2","-","3","0">>,
      <<" ","2","0","2","5","-","0","8","-","2","2">>,
      <<"s","o","o","n">>,
      <<"s","o","o","n"," ","G","M","T">>,
      <<"G","M","T">>,
      <<>> }

DateInit ==
    /\ date_string \in DateTexts
    /\ date_result = <<>>
    /\ date_pc = "call"

DateIdle ==
    /\ date_string = <<>>
    /\ date_result = <<>>
    /\ date_pc = "idle"

SenderVars == {"EMAIL_HOST", "EMAIL_PORT", "EMAIL_USER", "EMAIL_PASSWORD", "EMAIL_USE_TLS"}

\* a variable that is unset, empty or set to a text
Settings(texts) == { EnvUnset, EnvSet(<<>>) } \cup { EnvSet(t) : t \in texts }

PortTexts ==
    { <<"5","8","7">>, <<"1">>, <<"0">>, <<"6","5","5","3","5">>, <<"6","5","5","3","6">>,
      <<"9","9","9","9","9">>, <<"-","1">>, <<"+","2","5">>, <<" ","2","5"," ">>,
      <<"2","_","5">>, <<"a","b","c">>, <<"2","5",".","0">> }

TlsTexts ==
    { <<"t","r","u","e">>, <<"f","a","l","s","e">>, <<"F","a","l","s","e">>,
      <<"T","R","U","E">>, <<"y","e","s">> }

SenderEnvs ==
    { [n \in SenderVars |->
            CASE n = "EMAIL_HOST" -> h
              [] n = "EMAIL_PORT" -> p
              [] n = "EMAIL_USER" -> u
              [] n = "EMAIL_PASSWORD" -> w
              [] OTHER -> t] :
        h \in Settings({ <<"s","m","t","p",".","x">> }),
        p \in Settings(PortTexts),
        u \in Settings({ <<"u","@","x",".","y">> }),
        w \in Settings({ <<"p","w">> }),
        t \in Settings(TlsTexts) }

SndInit ==
    /\ snd_env \in SenderEnvs
    /\ snd_result = SenderError
    /\ snd_pc = "call"

SndIdle ==
    /\ snd_env = [n \in SenderVars |-> EnvUnset]
    /\ snd_result = SenderError
    /\ snd_pc = "idle"

\* the required variables of the pipeline, each unset, empty or set
EtlEnvs ==
    [ { required_vars[k] : k \in 1..Len(required_vars) } ->
        Settings({ <<"x">> }) ]

\* the pipeline before anything has run
EtlFresh ==
    /\ etl_log = <<>>
    /\ etl_scraped = <<>>
    /\ etl_articles = <<>>
    /\ etl_processed = <<>>
    /\ etl_i = 1
    /\ etl_outcomes = <<>>
    /\ etl_sender = "not_called"
    /\ etl_email = "none"
    /\ etl_result = "none"

\* python _04_report_etl.py: main() in some environment, no report on disk
EtlInit ==
    /\ etl_entry = "main"
    /\ etl_env \in EtlEnvs
    /\ etl_pc = "main"
    /\ etl_pdf_path = "None"
    /\ etl_files = {}
    /\ EtlFresh

\* send_email_notification(pdf_path) called on a constructed pipeline, with
\* None, an empty path, the path of a file that exists or of one that does not
NotifyInit ==
    /\ etl_entry = "send_email_notification"
    /\ etl_env \in { env \in EtlEnvs : MissingVars(env) = {} }
    /\ etl_pc = "send_email_notification"
    /\ etl_pdf_path \in {"None", "", "missing.pdf", ReportPath}
    /\ etl_files \in SUBSET {ReportPath}
    /\ EtlFresh

EtlIdle ==
    /\ etl_entry = "none"
    /\ etl_env = [k \in {} |-> EnvUnset]
    /\ etl_pc = "idle"
    /\ etl_pdf_path = "None"
    /\ etl_files = {}
    /\ EtlFresh

Recipients ==
    { PyNone, PyStr(<<>>), PyStr(<<"a","@","b",".","c">>), PyStr(<<"a","b",".","c">>),
      PyStr(<<"a","@","b","c">>), PyStr(<<"a","b","c">>), PyList(<<>>),
      PyList(<< <<"a","@","b",".","c">> >>),
      PyList(<< <<"a","@","b",".","c">>, <<"c","@","d",".","e">> >>),
      PyList(<< <<"a","@","b",".","c">>, <<"x">> >>),
      PyList(<< <<"a","@","b",".","c">>, <<>> >>) }

Subjects == { <<>>, <<" ">>, <<"S">> }

Messages == { <<>>, <<" ", "\n">>, <<"M">> }

ReportFile == <<"r",".","p","d","f">>

MissingFile == <<"m",".","p","d","f">>

Attachments ==
    { PyNone, PyStr(<<>>), PyStr(ReportFile), PyStr(MissingFile), PyList(<<>>),
      PyList(<< ReportFile, MissingFile >>), PyList(<< <<>>, ReportFile >>) }

\* a call of send_email on a constructed EmailSender
MailInit ==
    /\ mail_to \in Recipients
    /\ mail_subject \in Subjects
    /\ mail_message \in Messages
    /\ mail_attachments \in Attachments
    /\ mail_files \in SUBSET {ReportFile}
    /\ mail_pc = "call"
    /\ mail_i = 1
    /\ mail_attached = <<>>
    /\ mail_sends = <<>>
    /\ mail_result = "none"

MailIdle ==
    /\ mail_to = PyNone
    /\ mail_subject = <<>>
    /\ mail_message = <<>>
    /\ mail_attachments = PyNone
    /\ mail_files = {}
    /\ mail_pc = "idle"
    /\ mail_i = 1
    /\ mail_attached = <<>>
    /\ mail_sends = <<>>
    /\ mail_result = "none"

\* texts with every marker of the inline formatter, alone, combined,
\* doubled and nested
FmtTexts ==
    { <<>>, <<"p","l","a","i","n">>, <<"*","*","b","*","*">>, <<"_","_","b","_","_">>,
      <<"*","*","*","*","b","*","*","*","*">>, <<"*","i","*">>, <<"_","i","_">>,
      << Backquote, "c", Backquote >>, <<"[","t","]","(","u",")">>,
      <<"*","*","a","*","*"," ","*","i","*"," ">> \o << Backquote, "c", Backquote >>
            \o <<" ","[","t","]","(","u",")">>,
      <<"*","*","*","a","*","*","*">>, <<"a","_","b","_","c">>,
      << Backquote, Backquote, "a", Backquote, Backquote >>,
      <<"[","a","]","(","[","b","]","(","c",")",")">> }

FmtInit ==
    /\ fmt_text \in FmtTexts
    /\ fmt_once = <<>>
    /\ fmt_twice = <<>>
    /\ fmt_pc = "call"

FmtIdle ==
    /\ fmt_text = <<>>
    /\ fmt_once = <<>>
    /\ fmt_twice = <<>>
    /\ fmt_pc = "idle"

FeedEntry(title, summary, raises) ==
    [title |-> title, summary |-> summary, raises |-> raises]

\* an entry with a keyword in its title, one with a keyword in its summary,
\* one with none, and one whose processing raises
EntryTitled == FeedEntry(<<"H","a","r","d","F","o","r","k">>, <<"x">>, FALSE)

EntrySummarized == FeedEntry(<<"N","e","w","s">>, <<"o","n"," ","M","a","i","n","n","e","t">>, FALSE)

EntryOther == FeedEntry(<<"u","p">>, <<"d","a","t","e","d">>, FALSE)

EntryBroken == FeedEntry(<<"f","o","r","k">>, <<>>, TRUE)

\* what a source can answer: no access, an exception, or a feed
Feeds ==
    { [status |-> st, entries |-> <<>>] : st \in {"inaccessible", "raise", "ok"} }
        \cup { [status |-> "ok", entries |-> es] :
                es \in { << EntryTitled >>, << EntryOther, EntrySummarized >>,
                         << EntryTitled, EntryOther, EntrySummarized, EntryTitled >>,
                         << EntryTitled, EntrySummarized, EntryTitled, EntryTitled >>,
                         << EntryTitled, EntryBroken, EntrySummarized >> } }

ScrInit ==
    /\ scr_feeds \in [1..Len(ScraperSources) -> Feeds]
    /\ scr_pc = "source"
    /\ scr_si = 1
    /\ scr_ei = 1
    /\ scr_examined = <<>>
    /\ scr_articles = <<>>

ScrIdle ==
    /\ scr_feeds = <<>>
    /\ scr_pc = "idle"
    /\ scr_si = 1
    /\ scr_ei = 1
    /\ scr_examined = <<>>
    /\ scr_articles = <<>>

\* one run of one operation
Init ==
    \/ ReportInit /\ TokIdle /\ ClsIdle /\ DateIdle /\ SndIdle /\ EtlIdle /\ MailIdle /\ FmtIdle /\ ScrIdle
    \/ ReportIdle /\ TokInit /\ ClsIdle /\ DateIdle /\ SndIdle /\ EtlIdle /\ MailIdle /\ FmtIdle /\ ScrIdle
    \/ ReportIdle /\ TokIdle /\ ClsInit /\ DateIdle /\ SndIdle /\ EtlIdle /\ MailIdle /\ FmtIdle /\ ScrIdle
    \/ ReportIdle /\ TokIdle /\ ClsIdle /\ DateInit /\ SndIdle /\ EtlIdle /\ MailIdle /\ FmtIdle /\ ScrIdle
    \/ ReportIdle /\ TokIdle /\ ClsIdle /\ DateIdle /\ SndInit /\ EtlIdle /\ MailIdle /\ FmtIdle /\ ScrIdle
    \/ ReportIdle /\ TokIdle /\ ClsIdle /\ DateIdle /\ SndIdle /\ EtlInit /\ MailIdle /\ FmtIdle /\ ScrIdle
    \/ ReportIdle /\ TokIdle /\ ClsIdle /\ DateIdle /\ SndIdle /\ NotifyInit /\ MailIdle /\ FmtIdle /\ ScrIdle
    \/ ReportIdle /\ TokIdle /\ ClsIdle /\ DateIdle /\ SndIdle /\ EtlIdle /\ MailInit /\ FmtIdle /\ ScrIdle
    \/ ReportIdle /\ TokIdle /\ ClsIdle /\ DateIdle /\ SndIdle /\ EtlIdle /\ MailIdle /\ FmtInit /\ ScrIdle
    \/ ReportIdle /\ TokIdle /\ ClsIdle /\ DateIdle /\ SndIdle /\ EtlIdle /\ MailIdle /\ FmtIdle /\ ScrInit

Next ==
    \/ RaiseNoArticles
    \/ BeginReport
    \/ SourceHeader
    \/ ArticleBasic
    \/ ArticlePlain
    \/ ArticleStructured
    \/ LayoutStep
    \/ EndStructured
    \/ EndSource
    \/ BuildReport
    \/ TokBegin
    \/ TokLine
    \/ TokEnd
    \/ Classify
    \/ FormatDate
    \/ SenderInit
    \/ EtlConfigError
    \/ EtlConstruct
    \/ EtlScrape
    \/ EtlEnrichBegin
    \/ EtlEnrich
    \/ EtlEnrichEnd
    \/ EtlPdf
    \/ EtlNotify
    \/ MailValidate
    \/ MailAttach
    \/ MailSend
    \/ FormatInline
    \/ FormatAgain
    \/ ScrSource
    \/ ScrEntry
    \/ ScrEndSource
    \/ ScrReturn

Spec == Init /\ [][Next]_vars

\* ------------------------------------------------------------------------
\* Properties
\* ------------------------------------------------------------------------

\* the elements of a finite set of numbers in increasing order
RECURSIVE SortedSeq(_)
SortedSeq(S) ==
    IF S = {} THEN <<>>
    ELSE LET m == CHOOSE x \in S : \A y \in S : x <= y
         IN  << m >> \o SortedSeq(S \ {m})

\* the concatenation of the sequences of a sequence
RECURSIVE Flatten(_)
Flatten(seqs) ==
    IF Len(seqs) = 0 THEN <<>> ELSE seqs[1] \o Flatten(Tail(seqs))

\* the blocks of the story with a role in roles, in order
BlocksWithRole(blocks, roles) ==
    LET Keep(b) == b.role \in roles
    IN  SelectSeq(blocks, Keep)

ReportReturned == pc = "done" /\ result = "returned"

\* C1: generate_report called with an empty article list raises ValueError
\* before the document is created: at no point of such a call is there a
\* SimpleDocTemplate, a story block or a build, and the call ends in the error.
C1_EmptyListRaises ==
    (articles = <<>> /\ pc # "idle") =>
        /\ doc = "none"
        /\ story = <<>>
        /\ pc \in {"call", "done"}
        /\ pc = "done" => result = "ValueError"

C1_Witness == articles = <<>> /\ pc = "done" /\ result = "ValueError"

\* the routing condition as the claim words it
ClaimedStructured(summary) ==
    \/ Len(summary) > 500
    \/ Count(summary, <<"#">>) > 2
    \/ Count(summary, <<"*", "*">>) > 3
    \/ Count(summary, <<"-", " ">>) > 3
    \/ Contains(summary, <<"\\", "n">>)

\* the enhanced generator is about to route the body of an article
AtArticle ==
    /\ pc = "article"
    /\ generator = "enhanced"
    /\ ai <= Len(articles_by_source.lists[si])

\* C2: the body of an article goes to the structured path (the layout loop
\* over its tokenized elements) if and only if the summary is longer than 500
\* characters, or holds more than 2 '#', more than 3 '**', more than 3 '- ',
\* or an escaped newline; otherwise it is emitted as one summary paragraph.
C2_Routing ==
    [][AtArticle =>
        /\ (pc' = "layout") <=> ClaimedStructured(CurrentArticle.summary)
        /\ (pc' = "article" /\ story'[Len(story') - 1].role = "summary")
                <=> ~ClaimedStructured(CurrentArticle.summary)]_vars

\* a 501-character summary without markers is in the layout loop
C2_Witness ==
    /\ pc = "layout"
    /\ CurrentArticle.summary = Rep("a", 501)
    /\ Len(markdown_elements) = 1

\* the article the inner loop has just finished was emitted as a summary
\* paragraph (the else branch, or the basic generator)
AfterPlainArticle ==
    /\ pc = "article"
    /\ ai > 1
    /\ story[Len(story) - 1].role = "summary"

PreviousArticle == articles_by_source.lists[si][ai - 1]

EmittedSummary == story[Len(story) - 1].text

\* first 600 characters and an ellipsis when longer than 600, else unchanged
ClaimedTruncation(text) ==
    IF Len(text) > 600
    THEN SubSeq(text, 1, 600) \o <<".", ".", ".">>
    ELSE text

\* C3 as stated: a summary on the plain path is emitted as its first 600
\* characters and an ellipsis when it is longer than 600 characters, and
\* unchanged when it is at most 600 characters long.
C3_Original ==
    AfterPlainArticle => EmittedSummary = ClaimedTruncation(PreviousArticle.summary)

\* C3 amended: what is truncated is the text that reaches the plain path.  In
\* the basic generator that is the summary after cleaning (tags dropped,
\* whitespace runs collapsed), emitted as its first 600 characters and an
\* ellipsis when longer than 600 and as it is otherwise.  In the enhanced
\* generator it is the raw summary, which is then at most 500 characters long
\* and is emitted unchanged.
C3_Truncation ==
    AfterPlainArticle =>
        IF generator = "basic"
        THEN EmittedSummary = ClaimedTruncation(clean_html(PreviousArticle.summary))
        ELSE /\ Len(PreviousArticle.summary) <= 500
             /\ EmittedSummary = PreviousArticle.summary

\* the basic generator made 603 characters of a 650-character summary
C3_Witness ==
    /\ AfterPlainArticle
    /\ generator = "basic"
    /\ Len(PreviousArticle.summary) = 650
    /\ Len(EmittedSummary) = 603

\* the sources of arts in the order of their first appearance
SourcesInOrder(arts) ==
    LET first == { i \in 1..Len(arts) :
                    \A j \in 1..(i - 1) : arts[j].source # arts[i].source }
        idx == SortedSeq(first)
    IN  [k \in 1..Len(idx) |-> arts[idx[k]].source]

\* the source headers and article titles the claim expects, in order
ExpectedOutline(arts) ==
    LET srcs == SourcesInOrder(arts)
        Group(src) ==
            LET Of(a) == a.source = src
                mine == SelectSeq(arts, Of)
            IN  << [role |-> "source_header", text |-> format_source_name(src)] >>
                \o [i \in 1..Len(mine) |->
                        [role |-> "article_title", text |-> mine[i].title]]
    IN  Flatten([k \in 1..Len(srcs) |-> Group(srcs[k])])

\* the source headers and article titles of the story, in order
Outline(blocks) ==
    LET sel == BlocksWithRole(blocks, {"source_header", "article_title"})
    IN  [i \in 1..Len(sel) |-> [role |-> sel[i].role, text |-> sel[i].text]]

\* C4: the finished story holds one source header per distinct source, in
\* the order of first appearance, each followed by one title block per
\* article of that source in input order.
C4_SourceGrouping ==
    ReportReturned => Outline(story) = ExpectedOutline(articles)

\* two articles of one source: one header, two titles
C4_Witness ==
    /\ ReportReturned
    /\ Len(articles) = 2
    /\ articles[1].source = articles[2].source
    /\ articles[1].title # articles[2].title
    /\ Len(BlocksWithRole(story, {"source_header"})) = 1
    /\ Len(BlocksWithRole(story, {"article_title"})) = 2

\* C5: with k distinct sources the finished story holds k-1 page breaks
\* between sources: one right before every source header but the first, and
\* none after the last source group.
C5_PageBreaks ==
    ReportReturned =>
        /\ Len(BlocksWithRole(story, {"source_pagebreak"}))
                = Len(SourcesInOrder(articles)) - 1
        /\ story[Len(story)].kind # "PageBreak"
        /\ \A i \in 1..Len(story) :
              /\ story[i].role = "source_pagebreak" =>
                    (i < Len(story) /\ story[i + 1].role = "source_header")
              /\ (story[i].role = "source_header"
                    /\ \E j \in 1..(i - 1) : story[j].role = "source_header")
                    => story[i - 1].role = "source_pagebreak"

\* three sources, two page breaks
C5_Witness ==
    /\ ReportReturned
    /\ Len(SourcesInOrder(articles)) = 3
    /\ Len(BlocksWithRole(story, {"source_pagebreak"})) = 2

TocRoles == {"toc_title", "toc_spacer", "toc_entry", "toc_pagebreak"}

\* the blocks appended for the body of the article in layout: those after
\* its link block
ArticleBody ==
    LET last == CHOOSE i \in 1..Len(story) :
                    /\ story[i].role = "link"
                    /\ \A j \in (i + 1)..Len(story) : story[j].role # "link"
    IN  SubSeq(story, last + 1, Len(story))

\* C6: while a structured article is laid out, its body holds a table of
\* contents if and only if it has more than 10 elements; the table of contents
\* opens the body, ends with a page break, holds no other page break, and
\* every block after that page break is a content block.
C6_TableOfContents ==
    pc = "layout" =>
        LET body == ArticleBody
            n == Len(BlocksWithRole(body, TocRoles))
        IN  /\ (n > 0) <=> (Len(markdown_elements) > 10)
            /\ n > 0 =>
                /\ body[1].role = "toc_title"
                /\ \A i \in 1..n : body[i].role \in TocRoles
                /\ body[n].kind = "PageBreak"
                /\ \A i \in 1..(n - 1) : body[i].kind # "PageBreak"

\* an article of 11 elements: its first content block follows the page
\* break of the table of contents
C6_Witness ==
    /\ pc = "layout"
    /\ Len(markdown_elements) = 11
    /\ ei = 2
    /\ story[Len(story) - 1].role = "toc_pagebreak"
    /\ story[Len(story)].role = "header"

\* the tokenizer has returned from a text made of plain-text lines only:
\* no blank line, header, list, quote or rule line
OnlyTextLines ==
    /\ tok_pc = "done"
    /\ Len(tok_lines) >= 1
    /\ \A i \in 1..Len(tok_lines) : LineKind(Strip(tok_lines[i])) = "text"

\* the lines, each stripped, joined by single spaces
JoinedLines == Join([i \in 1..Len(tok_lines) |-> Strip(tok_lines[i])], <<" ">>)

\* C7 as stated: a run of plain-text lines gives exactly one Paragraph whose
\* text is the lines, stripped and joined by single spaces.
C7_Original ==
    OnlyTextLines =>
        /\ Len(elements) = 1
        /\ elements[1].kind = "paragraph"
        /\ elements[1].text = JoinedLines

\* C7 amended: a run of plain-text lines gives exactly one Paragraph whose
\* text is the inline-formatted form of the lines, stripped and joined by
\* single spaces; it is the joined lines themselves when the formatter finds
\* no marker in them.
C7_OneParagraph ==
    OnlyTextLines =>
        /\ Len(elements) = 1
        /\ elements[1].kind = "paragraph"
        /\ elements[1].text = process_markdown_text(JoinedLines)
        /\ (\A i \in 1..Len(JoinedLines) : JoinedLines[i] \notin {"*", "_", "[", Backquote})
                => elements[1].text = JoinedLines
        /\ current_paragraph = <<>>

\* three lines, one of them padded with blanks, one paragraph
C7_Witness ==
    /\ OnlyTextLines
    /\ Len(tok_lines) = 3
    /\ \E i \in 1..3 : tok_lines[i] # Strip(tok_lines[i])
    /\ Len(elements) = 1
    /\ elements[1].text = JoinedLines

\* the header lines of the tokenized text and the header elements made
HeaderLines ==
    LET IsHeaderLine(l) == StartsWith(Strip(l), <<"#">>)
    IN  SelectSeq(tok_lines, IsHeaderLine)

HeaderElements == SelectSeq(elements, IsHeaderElement)

ClaimedHeaderStyle(n) ==
    CASE n = 1 -> "title_style"
      [] n = 2 -> "proposal_h2_style"
      [] n = 3 -> "proposal_h3_style"
      [] OTHER -> "h4_style"

CategoryOrder ==
    << [name |-> "executive_summary", keywords |-> kw_executive_summary],
       [name |-> "background", keywords |-> kw_background],
       [name |-> "objective", keywords |-> kw_objective],
       [name |-> "methodology", keywords |-> kw_methodology],
       [name |-> "research_areas", keywords |-> kw_research_areas],
       [name |-> "timeline", keywords |-> kw_timeline],
       [name |-> "investment", keywords |-> kw_investment],
       [name |-> "deliverable", keywords |-> kw_deliverable],
       [name |-> "research_questions", keywords |-> kw_research_questions],
       [name |-> "participants", keywords |-> kw_participants] >>

\* the categories with a keyword occurring in the lower-cased text
MatchingCategories(text) ==
    { c \in 1..Len(CategoryOrder) :
        \E k \in CategoryOrder[c].keywords : Contains(Lower(text), k) }

\* C9: the classifier returns the first category of the priority order with
\* a keyword occurring in the lower-cased text, General when there is none;
\* a text made with an executive-summary keyword is ExecutiveSummary whatever
\* its case, its punctuation and its other keywords.
C9_Classifier ==
    cls_pc = "done" =>
        /\ IF MatchingCategories(cls_text) = {}
           THEN cls_result = "general"
           ELSE \E c \in MatchingCategories(cls_text) :
                    /\ \A d \in MatchingCategories(cls_text) : c <= d
                    /\ cls_result = CategoryOrder[c].name
        /\ (\E i \in 1..Len(cls_words) : cls_words[i] \in kw_executive_summary)
                => cls_result = "executive_summary"

\* an upper-case text with a background keyword ahead of "summary"
C9_Witness ==
    /\ cls_pc = "done"
    /\ Len(cls_words) = 2
    /\ cls_words[1] \in kw_background
    /\ cls_words[2] \in kw_executive_summary
    /\ cls_text = Upper(cls_text)
    /\ cls_result = "executive_summary"

\* the layout loop is at a header with a section in the buffer
AtHeaderWithSection ==
    /\ pc = "layout"
    /\ ei <= Len(markdown_elements)
    /\ markdown_elements[ei].kind = "header"
    /\ current_section # <<>>

\* C10: a header reached with a non-empty section buffer has the buffered
\* section appended as a keep-together group before its own block; a section
\* left in the buffer after the last element is appended as a keep-together
\* group.
C10_SectionBeforeHeader ==
    [][/\ AtHeaderWithSection =>
            /\ Len(story') = Len(story) + 2
            /\ story'[Len(story) + 1] = KeepTogether(current_section)
            /\ story'[Len(story) + 2].role = "header"
       /\ (pc = "layout" /\ ei > Len(markdown_elements) /\ current_section # <<>>) =>
            story'[Len(story) + 1] = KeepTogether(current_section)]_vars

\* the element the layout loop is about to lay out is a block that is not
\* a header (an empty paragraph is no block)
AtSectionBlock ==
    /\ pc = "layout"
    /\ ei <= Len(markdown_elements)
    /\ markdown_elements[ei].kind \in {"paragraph", "list_item", "numbered_list", "quote", "hr"}
    /\ markdown_elements[ei].kind = "paragraph" => markdown_elements[ei].text # <<>>

\* C11: every non-header block of a structured article (paragraph, list
\* item, numbered item, quote, rule) is accumulated into the current-section
\* buffer when it is laid out, and so belongs to the keep-together group of
\* its section.
C11_SectionHoldsBlocks ==
    [][AtSectionBlock =>
            /\ Len(current_section') = Len(current_section) + 1
            /\ \A i \in 1..Len(current_section) : current_section'[i] = current_section[i]]_vars

IsListItem(element) == element.kind = "list_item"

\* C12: when a structured article is laid out, of two of its list items the
\* one with the larger tokenized indent level has the larger left indent.
C12_IndentGrows ==
    (pc = "layout" /\ ei > Len(markdown_elements)) =>
        LET items == SelectSeq(markdown_elements, IsListItem)
            blocks == BlocksWithRole(ArticleBody, {"list_item"})
        IN  /\ Len(blocks) = Len(items)
            /\ \A i, j \in 1..Len(items) :
                    items[i].indent < items[j].indent =>
                        StyleLeftIndent(blocks[i].style) < StyleLeftIndent(blocks[j].style)

\* the date string the format loop works on: without 'GMT', stripped
GmtStripped(ds) ==
    IF Contains(ds, <<"G","M","T">>) THEN Strip(Replace(ds, <<"G","M","T">>, <<>>)) ELSE ds

\* one of the known date patterns matches
DateParsed(ds) == \E k \in 1..Len(DateFormats) : Strptime(ds, DateFormats[k]) # {}

\* a date in the output format: a month name, a day and a year
IsReformatted(ds) ==
    \E m \in 1..12 :
        /\ StartsWith(ds, MonthName[m])
        /\ Len(ds) > Len(MonthName[m]) + 5
        /\ ds[Len(MonthName[m]) + 4] = ","

\* C20: _format_date returns the date reformatted when its input (the GMT
\* suffix aside) matches one of the known date patterns, and returns the
\* original string unchanged when it matches none.
C20_FormatDate ==
    date_pc = "done" =>
        IF DateParsed(GmtStripped(date_string))
        THEN IsReformatted(date_result)
        ELSE date_result = date_string

EnvIsUnset(env, name) == ~env[name].set

\* the text of EMAIL_PORT (587 when unset) reads as an integer in 1..65535
PortTextValid(env) ==
    /\ ParseInt(Getenv(env, "EMAIL_PORT", <<"5","8","7">>)).ok
    /\ ParseInt(Getenv(env, "EMAIL_PORT", <<"5","8","7">>)).val \in 1..65535

\* the fields of a successful construction; tls_defaulted: the claimed
\* condition under which TLS is enabled by default
SenderDefaults(tls_defaulted) ==
    /\ snd_result.host = snd_env["EMAIL_HOST"].val
    /\ snd_result.username = snd_env["EMAIL_USER"].val
    /\ snd_result.password = snd_env["EMAIL_PASSWORD"].val
    /\ ~snd_env["EMAIL_PORT"].set => snd_result.port = 587
    /\ tls_defaulted => snd_result.use_tls

Enriched == etl_pc \in {"generate_pdf_report", "send_email_notification", "done"}
                /\ Len(etl_outcomes) > 0

\* C13: generate_ai_proposals returns the articles it was given, as many and
\* in the same order; an article whose AI call failed carries the
\* placeholder "Error generating proposal" as ai_proposal and keeps its
\* summary, and every other article is enriched as if nothing had failed:
\* proposal and summary both the generated text, or untouched when it had
\* no summary.
C13_Enrichment ==
    Enriched =>
        /\ Len(etl_articles) = Len(etl_scraped)
        /\ \A k \in 1..Len(etl_articles) :
            /\ etl_articles[k].id = etl_scraped[k].id
            /\ etl_outcomes[k] = "fail" =>
                    /\ etl_articles[k].ai_proposal = "Error generating proposal"
                    /\ etl_articles[k].summary = etl_scraped[k].summary
            /\ etl_outcomes[k] = "ok" =>
                    /\ etl_articles[k].ai_proposal = "proposal"
                    /\ etl_articles[k].summary = "proposal"
            /\ etl_outcomes[k] = "skipped" => etl_articles[k] = etl_scraped[k]

\* a batch of two in which the first call failed and the second did not
C13_Witness ==
    /\ Enriched
    /\ etl_outcomes = <<"fail", "ok">>
    /\ etl_articles[1].summary = "news"
    /\ etl_articles[2].ai_proposal = "proposal"

IsStage(event) == event \in {"scrape", "enrich", "pdf", "email"}

\* the stages entered so far, in order
Stages == SelectSeq(etl_log, IsStage)

StageOrder == <<"scrape", "enrich", "pdf", "email">>

\* C14: run_pipeline enters its stages in the order scrape, AI enrichment,
\* PDF generation, email, each at most once; the email stage is entered
\* only after a PDF was written; a scrape without articles, or a PDF stage
\* without a PDF, ends the run with False and without a later stage.
C14_StageOrder ==
    etl_entry = "main" =>
        /\ Len(Stages) <= Len(StageOrder)
        /\ Stages = SubSeq(StageOrder, 1, Len(Stages))
        /\ (Len(Stages) = 4 \/ etl_pc = "send_email_notification") =>
                /\ etl_pdf_path = ReportPath
                /\ ReportPath \in etl_files
                /\ \E k \in 1..Len(etl_log) : etl_log[k] = "pdf_write"
        /\ (etl_pc = "done" /\ Len(Stages) >= 1 /\ etl_scraped = <<>>) =>
                etl_result = "False" /\ Stages = <<"scrape">>
        /\ (etl_pc = "done" /\ Len(Stages) >= 3 /\ etl_pdf_path = "None") =>
                etl_result = "False" /\ Stages = <<"scrape", "enrich", "pdf">>

\* a run that stopped at the PDF stage, and never entered the email stage
C14_Witness ==
    /\ etl_entry = "main"
    /\ etl_pc = "done"
    /\ etl_pdf_path = "None"
    /\ Stages = <<"scrape", "enrich", "pdf">>
    /\ etl_result = "False"

\* the SMTP deliveries attempted so far
IsSend(event) == event = "smtp_send"

NotifyReturned ==
    etl_pc = "done" /\ Len(Stages) > 0 /\ Stages[Len(Stages)] = "email"

\* C15: send_email_notification returns False when the path is empty or
\* None or names no file (and then sends nothing), when the sender reports
\* failure and when the sender raises; it calls the sender at most once and
\* always returns a boolean.
C15_Notification ==
    NotifyReturned =>
        /\ etl_email \in {"True", "False"}
        /\ Len(SelectSeq(etl_log, IsSend)) <= 1
        /\ (etl_pdf_path \in {"None", ""} \/ etl_pdf_path \notin etl_files) =>
                /\ etl_email = "False"
                /\ etl_sender = "not_called"
                /\ SelectSeq(etl_log, IsSend) = <<>>
        /\ etl_sender \in {"False", "raise"} => etl_email = "False"
        /\ etl_email = "True" => etl_sender = "True"

\* the path of a file that does not exist: False, and nothing was sent
C15_Witness ==
    /\ NotifyReturned
    /\ etl_pdf_path = "missing.pdf"
    /\ etl_email = "False"
    /\ etl_sender = "not_called"

ConfigMissing ==
    \E v \in DOMAIN etl_env : ~etl_env[v].set \/ etl_env[v].val = <<>>

\* C19 as stated: with ANTHROPIC_API_KEY, ANTHROPIC_MODEL or EMAIL_USER
\* unset or empty the program ends in a configuration error before any
\* network call, any file I/O and any stage.
C19_Original ==
    (etl_entry = "main" /\ ConfigMissing) =>
        /\ etl_pc = "done" => etl_result = "ConfigError"
        /\ etl_log = <<>>

\* C19: with ANTHROPIC_API_KEY, ANTHROPIC_MODEL or EMAIL_USER unset or
\* empty the program ends in a configuration error; all it has done by
\* then is load_dotenv's read of the .env file: no network call, no other
\* file I/O, and no stage.
C19_ConfigError ==
    (etl_entry = "main" /\ ConfigMissing) =>
        /\ etl_pc \in {"main", "done"}
        /\ etl_pc = "done" => etl_result = "ConfigError"
        /\ etl_log \in { <<>>, <<"load_dotenv">> }

\* ANTHROPIC_MODEL set to the empty string
C19_Witness ==
    /\ etl_entry = "main"
    /\ etl_env["ANTHROPIC_MODEL"] = EnvSet(<<>>)
    /\ etl_env["ANTHROPIC_API_KEY"] = EnvSet(<<"x">>)
    /\ etl_env["EMAIL_USER"] = EnvSet(<<"x">>)
    /\ etl_pc = "done"
    /\ etl_result = "ConfigError"
    /\ etl_log = <<"load_dotenv">>

\* some attachment path of the call names no file
AttachmentMissing ==
    \E k \in 1..Len(AttachmentPaths(mail_attachments)) :
        /\ AttachmentPaths(mail_attachments)[k] # <<>>
        /\ AttachmentPaths(mail_attachments)[k] \notin mail_files

\* C16: send_email called with an attachment path that does not exist on
\* disk returns False, and the message is not delivered without its
\* attachment.
C16_AttachmentRequired ==
    (mail_pc = "done" /\ AttachmentMissing) =>
        /\ mail_result = "False"
        /\ \A k \in 1..Len(mail_sends) : mail_sends[k].outcome # "250"

HasChar(text, c) == \E k \in 1..Len(text) : text[k] = c

\* the recipient addresses of the call
Addresses(to) ==
    IF to.type = "str" THEN { to.val }
    ELSE IF to.type = "list" THEN { to.val[k] : k \in 1..Len(to.val) }
    ELSE {}

\* the inputs the claim names: no recipient, a subject or a message that is
\* empty or only whitespace, an address without '@' or without '.'
ClaimedInvalid ==
    \/ mail_to.type = "none" \/ mail_to.val = <<>>
    \/ \A k \in 1..Len(mail_subject) : mail_subject[k] \in Whitespace
    \/ \A k \in 1..Len(mail_message) : mail_message[k] \in Whitespace
    \/ \E email \in Addresses(mail_to) : ~HasChar(email, "@") \/ ~HasChar(email, ".")

\* C17: send_email returns False without any call of the SMTP send when
\* the recipient is empty, the subject or the message is empty or blank, or
\* a recipient address lacks '@' or '.'; whatever the input and whatever
\* the transport does, the call ends with True or False, after at most one
\* send.
C17_Validation ==
    /\ mail_pc # "idle" /\ ClaimedInvalid => mail_sends = <<>>
    /\ Len(mail_sends) <= 1
    /\ mail_pc = "done" =>
        /\ mail_result \in {"True", "False"}
        /\ ClaimedInvalid => mail_result = "False"
        /\ mail_result = "True" =>
                Len(mail_sends) = 1 /\ mail_sends[1].outcome = "250"

\* an address without '.', with a subject and a message: False, no send
C17_Witness ==
    /\ mail_pc = "done"
    /\ mail_to = PyStr(<<"a","@","b","c">>)
    /\ mail_subject = <<"S">>
    /\ mail_message = <<"M">>
    /\ mail_result = "False"
    /\ mail_sends = <<>>

\* the layout of a structured article is complete: its elements are laid
\* out and the remaining section is appended
StructuredLaidOut ==
    /\ pc = "article"
    /\ generator = "enhanced"
    /\ ai > 1
    /\ is_structured(PreviousArticle.summary)

IsParagraphElement(element) == element.kind = "paragraph" /\ element.text # <<>>

\* how often the text is rendered in the blocks: as a Paragraph of the
\* story itself or as a Paragraph inside a keep-together group
RECURSIVE Renderings(_, _)
Renderings(blocks, text) ==
    IF blocks = <<>> THEN 0
    ELSE (IF blocks[1].kind = "Paragraph" /\ blocks[1].text = text THEN 1 ELSE 0)
         + Renderings(blocks[1].content, text)
         + Renderings(Tail(blocks), text)

\* how many paragraph elements carry the text
ParagraphsWith(text) ==
    LET Same(element) == IsParagraphElement(element) /\ element.text = text
    IN  Len(SelectSeq(markdown_elements, Same))

\* C28: when a structured article has been laid out, every Paragraph
\* element is rendered exactly once in its blocks: standalone, or inside a
\* keep-together group, never both.
C28_ParagraphOnce ==
    StructuredLaidOut =>
        \A k \in 1..Len(markdown_elements) :
            IsParagraphElement(markdown_elements[k]) =>
                Renderings(ArticleBody, markdown_elements[k].text)
                    = ParagraphsWith(markdown_elements[k].text)

Nbsp == <<"&","n","b","s","p",";">>

\* the number of "&nbsp;" a text starts with
RECURSIVE LeadingNbsp(_)
LeadingNbsp(text) ==
    IF StartsWith(text, Nbsp) THEN 1 + LeadingNbsp(From(text, Len(Nbsp) + 1)) ELSE 0

\* the "&nbsp;" of one indent unit of the table of contents
TocIndentUnit == 4

\* the table of contents of the article in layout
TocEntries == BlocksWithRole(ArticleBody, {"toc_entry"})

\* C26: the table of contents synthesized for an article has exactly one
\* entry per Header element, in the order of the headers, each ending in
\* the text of its header, and none for any other element; the entry of a
\* header of level n is indented by n - 1 indent units.
C26_TocEntries ==
    (pc = "layout" /\ Len(markdown_elements) > TocThreshold) =>
        LET headers == SelectSeq(markdown_elements, IsHeaderElement)
        IN  /\ Len(TocEntries) = Len(headers)
            /\ \A k \in 1..Len(headers) :
                /\ LeadingNbsp(TocEntries[k].text) = (headers[k].level - 1) * TocIndentUnit
                /\ From(TocEntries[k].text, LeadingNbsp(TocEntries[k].text) * Len(Nbsp) + 1)
                        = BulletChar \o <<" ">> \o headers[k].text

\* a table of contents with the entries of headers of the levels 1, 3, 4,
\* 2 and 5, in this order
C26_Witness ==
    /\ pc = "layout"
    /\ Len(markdown_elements) = 11
    /\ Len(TocEntries) = 5
    /\ LeadingNbsp(TocEntries[2].text) = 8
    /\ LeadingNbsp(TocEntries[4].text) = 4
    /\ LeadingNbsp(TocEntries[5].text) = 16

\* C21: formatting a text that is already the formatter's output changes
\* nothing: _process_markdown_text(_process_markdown_text(t)) is
\* _process_markdown_text(t)
C21_Idempotent ==
    fmt_pc = "done" => fmt_twice = fmt_once


\* ------------------------------------------------------------------------
\* The tokenizer, line by line
\* ------------------------------------------------------------------------

\* a step of the loop over the lines
TokLineStep == tok_pc = "loop" /\ tok_i <= Len(tok_lines) /\ tok_i' = tok_i + 1

\* the stripped line of the step
StepLine == Strip(tok_lines[tok_i])

\* the elements the step appends
StepElements == SubSeq(elements', Len(elements) + 1, Len(elements'))

IsOwnElement(element) == element.kind # "paragraph"

\* the elements the step appends for its own line: all but the paragraph
\* of the lines before it
StepOwn == SelectSeq(StepElements, IsOwnElement)

StepOwnKinds == { StepOwn[k].kind : k \in 1..Len(StepOwn) }

DigitLed(line) == line # <<>> /\ line[1] \in Digits

BulletLed(line) == Len(line) >= 2 /\ line[1] \in {"-", "*", "+"} /\ line[2] \in Whitespace

\* <digits>. <text>
NumberedShape(line) ==
    /\ DigitLed(line)
    /\ Len(line) >= DigitRun(line) + 2
    /\ line[DigitRun(line) + 1] = "."
    /\ line[DigitRun(line) + 2] = " "

\* the accumulator after the line was appended to it
Accumulated(paragraph, line) ==
    IF paragraph # <<>> THEN paragraph \o <<" ">> \o line ELSE line

\* C22: a line is classified by the first rule that matches, in the order
\* blank, header, bullet, numbered, blockquote, rule, plain text, and gets
\* at most one element kind; a bullet line is a list item whatever follows
\* the marker, and '---', '***', '___' are rules
C22_FirstRule ==
    [][TokLineStep =>
        /\ Len(StepOwn) <= 1
        /\ IF StepLine = <<>> THEN StepOwn = <<>>
           ELSE IF StepLine[1] = "#" THEN StepOwnKinds = {"header"}
           ELSE IF BulletLed(StepLine)
                THEN /\ StepOwnKinds = {"list_item"}
                     /\ StepOwn[1].text = process_markdown_text(Strip(From(StepLine, 3)))
           ELSE IF NumberedShape(StepLine) THEN StepOwnKinds = {"numbered_list"}
           ELSE IF DigitLed(StepLine) THEN StepOwnKinds \subseteq {"numbered_list"}
           ELSE IF StartsWith(StepLine, <<">"," ">>) THEN StepOwnKinds = {"quote"}
           ELSE IF StepLine \in { <<"-","-","-">>, <<"*","*","*">>, <<"_","_","_">> }
                THEN StepOwnKinds = {"hr"}
           ELSE /\ StepOwn = <<>>
                /\ current_paragraph' = Accumulated(current_paragraph, StepLine)
    ]_vars

\* a bullet line whose remainder starts with '#' became a list item
C22_Witness ==
    /\ tok_pc = "done"
    /\ tok_lines = << <<"-"," ","#"," ","h">> >>
    /\ Len(elements) = 1
    /\ elements[1].kind = "list_item"
    /\ elements[1].text = <<"#"," ","h">>

\* C23: a line that starts with a digit and is not emitted as a numbered
\* item is appended to the accumulator, which is not flushed first
C23_DigitLineAccumulates ==
    [][(TokLineStep /\ DigitLed(StepLine) /\ "numbered_list" \notin StepOwnKinds) =>
        /\ elements' = elements
        /\ current_paragraph' = Accumulated(current_paragraph, StepLine)
    ]_vars

\* C24: a numbered item carries the leading digits of its line as number
\* and the rest of the line behind the separator as text
C24_NumberedItem ==
    [][(TokLineStep /\ "numbered_list" \in StepOwnKinds) =>
        /\ StepOwn[1].number = SubSeq(StepLine, 1, DigitRun(StepLine))
        /\ StepOwn[1].text =
                process_markdown_text(Strip(From(StepLine, DigitRun(StepLine) + 3)))
    ]_vars

EscapedNewline == <<"\\","n">>

\* C25: a text whose line breaks are written as backslash-n tokenizes to
\* the elements of the same text with real line breaks
C25_EscapedNewlines ==
    tok_pc = "done" =>
        elements = parse_markdown_enhanced(Replace(tok_text, EscapedNewline, <<"\n">>))

\* a text with an escaped line break gave more than one element
C25_Witness ==
    /\ tok_pc = "done"
    /\ Contains(tok_text, EscapedNewline)
    /\ ~Contains(tok_text, <<"\n">>)
    /\ Len(elements) >= 2

\* the text of an element comes from the line: a stripped tail of it,
\* formatted or as it is
FromLine(element, line) ==
    \E j \in 1..(Len(line) + 1) :
        \/ element.text = process_markdown_text(Strip(From(line, j)))
        \/ element.text = Strip(From(line, j))

\* C27: elements are only appended, in line order; every non-blank line
\* goes to exactly one place, its own element or the accumulator; a flush
\* moves the whole accumulator to one paragraph and leaves it empty; after
\* the end of input the accumulator is empty; no paragraph is empty
C27_NothingLost ==
    [][/\ Len(elements') >= Len(elements)
       /\ SubSeq(elements', 1, Len(elements)) = elements
       /\ \A k \in 1..Len(elements') :
            elements'[k].kind = "paragraph" => elements'[k].text # <<>>
       /\ tok_pc' = "done" => current_paragraph' = <<>>
       /\ TokLineStep =>
            /\ StepElements # StepOwn =>
                /\ StepElements[1] = ParagraphElement(current_paragraph)
                /\ Len(StepElements) = Len(StepOwn) + 1
                /\ current_paragraph' \in { <<>>, StepLine }
            /\ StepLine = <<>> => StepOwn = <<>> /\ current_paragraph' = <<>>
            /\ StepLine # <<>> =>
                \/ /\ Len(StepOwn) = 1
                   /\ StepOwn[1].kind = "hr" \/ FromLine(StepOwn[1], StepLine)
                   /\ current_paragraph' = <<>>
                \/ /\ StepOwn = <<>>
                   /\ current_paragraph' \in
                        { StepLine, current_paragraph \o <<" ">> \o StepLine }
                   /\ current_paragraph' # <<>>
    ]_vars

\* a text of plain lines around an element line was tokenized to the end
C27_Witness ==
    /\ tok_pc = "done"
    /\ Len(tok_lines) = 3
    /\ Len(elements) = 3
    /\ elements[1].kind = "paragraph"
    /\ elements[2].kind # "paragraph"
    /\ elements[3].kind = "paragraph"
    /\ current_paragraph = <<>>


\* ------------------------------------------------------------------------
\* run_pipeline as a whole
\* ------------------------------------------------------------------------

\* run_pipeline was entered from main
PipelineRan == etl_entry = "main" /\ Contains(etl_log, <<"scrape">>)

PipelineReturned == PipelineRan /\ etl_pc = "done"

\* the steps run_pipeline has before it at most: the stages ahead, each
\* counted as a whole pass of the loop over the articles, and the
\* iterations left in the loop
StageRank(stage) ==
    CASE stage = "run_pipeline" -> 5
      [] stage = "generate_ai_proposals" -> 4
      [] stage = "enrich_loop" -> 3
      [] stage = "generate_pdf_report" -> 2
      [] stage = "send_email_notification" -> 1
      [] OTHER -> 0

StepsLeft ==
    StageRank(etl_pc) * (MaxEtlArticles + 3)
        + (IF etl_pc = "enrich_loop" THEN Len(etl_articles) + 1 - etl_i ELSE 0)

PdfGenerated == etl_pdf_path = ReportPath /\ ReportPath \in etl_files

\* C29: run_pipeline always comes to an end (a run that has not returned
\* can take a step, and every step brings the return closer), it ends with
\* True or False and with no exception, and the result is True exactly
\* when an article was scraped and a PDF generated, whatever the email
\* step did
C29_PipelineResult ==
    /\ [](PipelineRan =>
            /\ StepsLeft >= 0
            /\ etl_pc # "done" => (etl_result = "none" /\ ENABLED Next)
            /\ etl_pc = "done" =>
                /\ etl_result \in {"True", "False"}
                /\ etl_result = "True" <=> (etl_scraped # <<>> /\ PdfGenerated))
    /\ [][(etl_entry = "main" /\ etl_pc \notin {"main", "done"}) =>
            StepsLeft' < StepsLeft]_vars

\* the run returned True although the email was not sent
C29_Witness ==
    /\ PipelineReturned
    /\ etl_result = "True"
    /\ etl_sender \in {"False", "raise"}
    /\ etl_email = "False"
    /\ Len(etl_scraped) = MaxEtlArticles


\* ------------------------------------------------------------------------
\* scrape_rss_feeds as a whole
\* ------------------------------------------------------------------------

\* the entries of a source that were looked at
ExaminedOf(source_index) ==
    { scr_examined[k][2] : k \in { j \in 1..Len(scr_examined) :
                                        scr_examined[j][1] = source_index } }

\* the articles of a source, in the order returned
ArticlesOf(source_index) ==
    LET from(article) == article.source = ScraperSources[source_index]
    IN  SelectSeq(scr_articles, from)

HasKeyword(text) ==
    \E k \in 1..Len(upgrade_keywords) : Contains(Lower(text), upgrade_keywords[k])

\* the entries of a feed that precede the first one whose processing
\* raises, among the first three
ReadableCount(entries) ==
    LET first == { k \in 1..Len(entries) : k <= 3 }
    IN  IF \E k \in first : entries[k].raises
        THEN (CHOOSE k \in first :
                entries[k].raises /\ \A j \in 1..(k - 1) : ~entries[j].raises) - 1
        ELSE Cardinality(first)

\* the articles a source has to give: its upgrade-related entries among
\* the first three, as long as nothing raised
ExpectedOf(source_index) ==
    LET feed == scr_feeds[source_index]
        wanted(entry) == HasKeyword(entry.title) \/ HasKeyword(entry.summary)
        kept == SelectSeq(SubSeq(feed.entries, 1, ReadableCount(feed.entries)), wanted)
    IN  IF feed.status # "ok" THEN <<>>
        ELSE [k \in 1..Len(kept) |->
                [source |-> ScraperSources[source_index], title |-> kept[k].title,
                 summary |-> kept[k].summary]]

\* C30: only the first 3 entries of a source are examined; the articles
\* returned are the entries among them whose title or summary holds an
\* upgrade keyword, at most 3 per source; a source that is not accessible
\* or raises leaves the articles of the other sources as they are
C30_Scrape ==
    /\ \A source_index \in 1..Len(scr_feeds) :
        /\ ExaminedOf(source_index) \subseteq 1..3
        /\ Len(ArticlesOf(source_index)) <= 3
    /\ \A k \in 1..Len(scr_articles) :
        HasKeyword(scr_articles[k].title) \/ HasKeyword(scr_articles[k].summary)
    /\ scr_pc = "done" =>
        /\ \A source_index \in 1..Len(scr_feeds) :
                ArticlesOf(source_index) = ExpectedOf(source_index)
        /\ Len(scr_articles) = Len(ArticlesOf(1)) + Len(ArticlesOf(2))
        /\ scr_articles = ArticlesOf(1) \o ArticlesOf(2)

\* the first source failed, and the second one gave three articles from a
\* feed of four entries that are all upgrade related
C30_Witness ==
    /\ scr_pc = "done"
    /\ scr_feeds[1].status \in {"inaccessible", "raise"}
    /\ Len(scr_feeds[2].entries) = 4
    /\ Len(scr_articles) = 3
    /\ ExaminedOf(2) = 1..3


====
